---------------------------- MODULE Spec2Model ----------------------------
(***************************************************************************)
(* Model of the Nyx specification/test traceability tooling:               *)
(*   scripts/spec_diff.py      the primary command (drift + coverage)      *)
(*   scripts/spec_test_map.py  the secondary command (@spec annotations)   *)
(*                                                                         *)
(* Text is a sequence of one-character strings; a document is a sequence   *)
(* of lines (what str.splitlines() / iterating the file yields).  A JSON   *)
(* value is a record [t |-> tag, v |-> payload]; a file on disk is either  *)
(* such a value, or tagged "missing" / "garbage" (text that is not JSON).  *)
(***************************************************************************)
EXTENDS Integers, Sequences, FiniteSets, TLC

(***************************************************************************)
(* Characters and strings                                                  *)
(***************************************************************************)

\* The characters of the model in code-point order (Python compares and
\* sorts str values by code point).
CodePoints ==
    << "\n", " ", "#", "(", ")", ",", "-", ".", "/",
       "0", "1", "2", "3", "4", "5", "6", "7", "8", "9", ":", "@",
       "A", "B", "C", "D", "E", "F", "G", "H", "I", "J", "K", "L", "M",
       "N", "O", "P", "Q", "R", "S", "T", "U", "V", "W", "X", "Y", "Z",
       "[", "]", "_",
       "a", "b", "c", "d", "e", "f", "g", "h", "i", "j", "k", "l", "m",
       "n", "o", "p", "q", "r", "s", "t", "u", "v", "w", "x", "y", "z",
       "{", "}" >>

Ord(c) == CHOOSE i \in 1..Len(CodePoints) : CodePoints[i] = c

Upper == << "A", "B", "C", "D", "E", "F", "G", "H", "I", "J", "K", "L", "M",
            "N", "O", "P", "Q", "R", "S", "T", "U", "V", "W", "X", "Y", "Z" >>
Lower == << "a", "b", "c", "d", "e", "f", "g", "h", "i", "j", "k", "l", "m",
            "n", "o", "p", "q", "r", "s", "t", "u", "v", "w", "x", "y", "z" >>
Digits == { "0", "1", "2", "3", "4", "5", "6", "7", "8", "9" }

\* The whitespace characters of the model (str.strip() and \s).
IsSpace(c) == c \in { " ", "\n" }

\* s < t for Python strings: lexicographic by code point.
RECURSIVE StrLess(_, _)
StrLess(s, t) ==
    IF t = << >> THEN FALSE
    ELSE IF s = << >> THEN TRUE
    ELSE IF s[1] = t[1] THEN StrLess(Tail(s), Tail(t))
    ELSE Ord(s[1]) < Ord(t[1])

\* str.startswith
StartsWith(s, p) == Len(s) >= Len(p) /\ SubSeq(s, 1, Len(p)) = p

\* str.strip(): leading and trailing whitespace removed.
RECURSIVE LStrip(_)
LStrip(s) == IF s # << >> /\ IsSpace(s[1]) THEN LStrip(Tail(s)) ELSE s
RECURSIVE RStrip(_)
RStrip(s) ==
    IF s # << >> /\ IsSpace(s[Len(s)]) THEN RStrip(SubSeq(s, 1, Len(s) - 1)) ELSE s
Strip(s) == RStrip(LStrip(s))

\* "\n".join(lines)
RECURSIVE JoinLines(_)
JoinLines(lines) ==
    IF lines = << >> THEN << >>
    ELSE IF Len(lines) = 1 THEN lines[1]
    ELSE lines[1] \o << "\n" >> \o JoinLines(Tail(lines))

\* sorted(list(S)) for a set S of strings.
RECURSIVE SortedList(_)
SortedList(S) ==
    IF S = {} THEN << >>
    ELSE LET m == CHOOSE x \in S : \A y \in S \ {x} : StrLess(x, y)
         IN  << m >> \o SortedList(S \ {m})

Range(f) == { f[i] : i \in DOMAIN f }

(***************************************************************************)
(* JSON values (json.loads / json.dumps) and Python's view of them         *)
(***************************************************************************)

JNull == [t |-> "null", v |-> 0]
JBool(b) == [t |-> "bool", v |-> b]
\* A number n/d (d > 0): an int is n/1, a float such as 100/3 keeps its value.
JNum(n, d) == [t |-> "num", v |-> << n, d >>]
JStr(s) == [t |-> "str", v |-> s]
JList(q) == [t |-> "list", v |-> q]
\* f is a function from key strings to JSON values.
JDict(f) == [t |-> "dict", v |-> f]
EmptyDict == JDict(<< >>)

\* A path on disk that does not exist, or whose text json.loads rejects.
Missing == [t |-> "missing", v |-> 0]
Garbage == [t |-> "garbage", v |-> 0]

\* bool(x) of a parsed JSON value (Python's "if x").
Truthy(j) ==
    CASE j.t = "null" -> FALSE
      [] j.t = "bool" -> j.v
      [] j.t = "num"  -> j.v[1] # 0
      [] j.t = "str"  -> j.v # << >>
      [] j.t = "list" -> j.v # << >>
      [] j.t = "dict" -> DOMAIN j.v # {}

\* x.get(k, default) for a dict x; on any other value .get raises
\* AttributeError, which callers test with IsDict first.
IsDict(j) == j.t = "dict"
Get(j, k, default) == IF k \in DOMAIN j.v THEN j.v[k] ELSE default

\* The keys of the report objects, as one-atom strings.
K_sections == << "sections" >>
K_title == << "title" >>
K_hash == << "hash" >>
K_changed == << "changed" >>
K_new_sections == << "new_sections" >>
K_removed_sections == << "removed_sections" >>
K_keyword_coverage_percent == << "keyword_coverage_percent" >>
K_keyword_coverage == << "keyword_coverage" >>
K_uncovered_keywords == << "uncovered_keywords" >>
K_section_mapping == << "section_mapping" >>
K_coverage_threshold_met == << "coverage_threshold_met" >>
K_section_coverage_percent == << "section_coverage_percent" >>
K_mapped_section_count == << "mapped_section_count" >>
K_total_section_count == << "total_section_count" >>
K_unmapped_sections == << "unmapped_sections" >>

(***************************************************************************)
(* spec_diff.py: section extraction and hashing                            *)
(***************************************************************************)

\* SECTION_HEADING_RE = ^## +(.+?)\s*$ matched against one line: the line
\* starts with "## " and at least one more character follows (" +" gives a
\* space back to ".+?" when only spaces follow).
SECTION_HEADING_RE(line) ==
    Len(line) >= 4 /\ SubSeq(line, 1, 3) = << "#", "#", " " >>

\* m.group(1).strip() of a matching line.
HeadingTitle(line) == Strip(SubSeq(line, 4, Len(line)))

\* The loop of extract_sections: cur.has is "current_title is not None".
RECURSIVE ExtractLoop(_, _, _, _)
ExtractLoop(lines, sections, cur, body) ==
    IF lines = << >>
    THEN IF cur.has THEN Append(sections, [title |-> cur.title, lines |-> body])
         ELSE sections
    ELSE IF SECTION_HEADING_RE(lines[1])
    THEN ExtractLoop(Tail(lines),
                     IF cur.has
                     THEN Append(sections, [title |-> cur.title, lines |-> body])
                     ELSE sections,
                     [has |-> TRUE, title |-> HeadingTitle(lines[1])],
                     << >>)
    ELSE ExtractLoop(Tail(lines), sections, cur,
                     IF cur.has THEN Append(body, lines[1]) ELSE body)

\* extract_sections, lines 107-110: each body joined and stripped.
\* extract_sections without the .strip() of line 108.
TrimBodiesUnstripped(raw) ==
    [i \in 1..Len(raw) |-> [title |-> raw[i].title, body |-> JoinLines(raw[i].lines)]]
TrimBodies(raw) ==
    [i \in 1..Len(raw) |->
        [title |-> raw[i].title, body |-> Strip(JoinLines(raw[i].lines))]]

\* extract_sections(spec_content): the (title, body) pairs in document order.
extract_sections(lines) ==
    TrimBodies(ExtractLoop(lines, << >>, [has |-> FALSE, title |-> << >>], << >>))

\* sha256(text).hexdigest(): a digest string that is a function of the text
\* alone and differs for the different texts of the model.
sha256(text) == << "sha256" >> \o text

\* build_section_infos.  previous is the "sections" value of the loaded
\* snapshot (any JSON value).  raised: the AttributeError of .get on a value
\* that is not a dict.
PrevEntry(previous, title) == Get(previous, title, EmptyDict)
PrevHash(previous, title) ==
    IF Truthy(previous) THEN Get(PrevEntry(previous, title), K_hash, JNull)
    ELSE JNull
\* build_section_infos without the "prev_hash is not None" test: a variant
\* in which a title the snapshot does not record counts as changed.
SectionChangedWithoutNoneTest(prev_hash, h) == prev_hash # JStr(h)
SectionChanged(prev_hash, h) == prev_hash # JNull /\ prev_hash # JStr(h)
\* build_section_infos hashing the title together with the body.
SectionInfoHashingTitle(title, h, prev_hash) ==
    [title |-> title, hash |-> h \o title, changed |-> SectionChanged(prev_hash, h)]
SectionInfo(title, h, prev_hash) ==
    [title |-> title, hash |-> h, changed |-> SectionChanged(prev_hash, h)]
InfosOf(secs, previous) ==
    IF \E i \in 1..Len(secs) :
          /\ Truthy(previous)
          /\ (~IsDict(previous) \/ ~IsDict(PrevEntry(previous, secs[i].title)))
    THEN [raised |-> TRUE, infos |-> << >>]
    ELSE [raised |-> FALSE,
          infos |-> [i \in 1..Len(secs) |->
              SectionInfo(secs[i].title, sha256(secs[i].body),
                          PrevHash(previous, secs[i].title))]]
build_section_infos(lines, previous) == InfosOf(extract_sections(lines), previous)

(***************************************************************************)
(* spec_diff.py: keyword coverage                                          *)
(***************************************************************************)

\* FEATURE_KEYWORDS, in the dict's (insertion) order: category, keywords.
FEATURE_KEYWORDS ==
    <<
      [cat |-> << "C", "r", "y", "p", "t", "o", "g", "r", "a", "p", "h", "y" >>,
       kws |-> <<
          << "H", "P", "K", "E" >>,   \* HPKE
          << "H", "y", "b", "r", "i", "d" >>,   \* Hybrid
          << "K", "y", "b", "e", "r" >>,   \* Kyber
          << "P", "Q" >>,   \* PQ
          << "P", "o", "s", "t", "-", "Q", "u", "a", "n", "t", "u", "m" >>    \* Post-Quantum
       >>],
      [cat |-> << "R", "o", "u", "t", "i", "n", "g" >>,
       kws |-> <<
          << "M", "u", "l", "t", "i", "p", "a", "t", "h" >>,   \* Multipath
          << "W", "R", "R" >>,   \* WRR
          << "r", "o", "u", "t", "i", "n", "g" >>,   \* routing
          << "h", "o", "p" >>    \* hop
       >>],
      [cat |-> << "T", "r", "a", "n", "s", "p", "o", "r", "t" >>,
       kws |-> <<
          << "Q", "U", "I", "C" >>,   \* QUIC
          << "T", "C", "P" >>,   \* TCP
          << "T", "e", "r", "e", "d", "o" >>,   \* Teredo
          << "D", "A", "T", "A", "G", "R", "A", "M" >>    \* DATAGRAM
       >>],
      [cat |-> << "F", "E", "C" >>,
       kws |-> <<
          << "R", "a", "p", "t", "o", "r", "Q" >>,   \* RaptorQ
          << "R", "S", "(", "2", "5", "5", ",", "2", "2", "3", ")" >>,   \* RS(255,223)
          << "r", "e", "d", "u", "n", "d", "a", "n", "c", "y" >>    \* redundancy
       >>],
      [cat |-> << "P", "l", "u", "g", "i", "n" >>,
       kws |-> <<
          << "P", "l", "u", "g", "i", "n" >>,   \* Plugin
          << "F", "r", "a", "m", "e" >>,   \* Frame
          << "C", "a", "p", "a", "b", "i", "l", "i", "t", "y" >>,   \* Capability
          << "C", "B", "O", "R" >>    \* CBOR
       >>],
      [cat |-> << "T", "e", "l", "e", "m", "e", "t", "r", "y" >>,
       kws |-> <<
          << "T", "e", "l", "e", "m", "e", "t", "r", "y" >>,   \* Telemetry
          << "P", "r", "o", "m", "e", "t", "h", "e", "u", "s" >>,   \* Prometheus
          << "O", "p", "e", "n", "T", "e", "l", "e", "m", "e", "t", "r", "y" >>,   \* OpenTelemetry
          << "m", "e", "t", "r", "i", "c", "s" >>    \* metrics
       >>],
      [cat |-> << "L", "o", "w", " ", "P", "o", "w", "e", "r" >>,
       kws |-> <<
          << "L", "o", "w", " ", "P", "o", "w", "e", "r" >>,   \* Low Power
          << "L", "o", "w", "-", "P", "o", "w", "e", "r" >>,   \* Low-Power
          << "c", "o", "v", "e", "r" >>,   \* cover
          << "b", "a", "t", "t", "e", "r", "y" >>    \* battery
       >>],
      [cat |-> << "C", "o", "m", "p", "l", "i", "a", "n", "c", "e" >>,
       kws |-> <<
          << "C", "o", "m", "p", "l", "i", "a", "n", "c", "e" >>,   \* Compliance
          << "C", "o", "r", "e" >>,   \* Core
          << "P", "l", "u", "s" >>,   \* Plus
          << "F", "u", "l", "l" >>    \* Full
       >>]
    >>

\* str.lower() on the characters of the model.
LowerChar(c) ==
    IF \E i \in 1..Len(Upper) : Upper[i] = c
    THEN Lower[CHOOSE i \in 1..Len(Upper) : Upper[i] = c]
    ELSE c
LowerText(text) == [i \in 1..Len(text) |-> LowerChar(text[i])]

\* re.sub(r"[<class>]+", " ", t): every maximal run of characters of the
\* class becomes one space.  The three classes of _normalize_for_match:
IsDashClass(c) == c \in { "-", "_" }
IsLowerAlnum(c) == c \in Digits \/ \E i \in 1..Len(Lower) : Lower[i] = c
IsOtherClass(c) == ~(IsLowerAlnum(c) \/ c = " ")
RECURSIVE SubDash(_, _)
SubDash(t, inRun) ==
    IF t = << >> THEN << >>
    ELSE IF IsDashClass(t[1])
         THEN (IF inRun THEN << >> ELSE << " " >>) \o SubDash(Tail(t), TRUE)
         ELSE << t[1] >> \o SubDash(Tail(t), FALSE)
RECURSIVE SubOther(_, _)
SubOther(t, inRun) ==
    IF t = << >> THEN << >>
    ELSE IF IsOtherClass(t[1])
         THEN (IF inRun THEN << >> ELSE << " " >>) \o SubOther(Tail(t), TRUE)
         ELSE << t[1] >> \o SubOther(Tail(t), FALSE)
RECURSIVE SubSpace(_, _)
SubSpace(t, inRun) ==
    IF t = << >> THEN << >>
    ELSE IF IsSpace(t[1])
         THEN (IF inRun THEN << >> ELSE << " " >>) \o SubSpace(Tail(t), TRUE)
         ELSE << t[1] >> \o SubSpace(Tail(t), FALSE)

\* _normalize_for_match
normalize_for_match(text) ==
    Strip(SubSpace(SubOther(SubDash(LowerText(text), FALSE), FALSE), FALSE))

\* "kw in text" for Python strings.
ContainsAtStart(text, kw) == StartsWith(text, kw)
Contains(text, kw) ==
    \E i \in 0..(Len(text) - Len(kw)) : SubSeq(text, i + 1, i + Len(kw)) = kw

\* The normalized keywords (they do not depend on the documents).
NormKeywords ==
    [c \in 1..Len(FEATURE_KEYWORDS) |->
        [k \in 1..Len(FEATURE_KEYWORDS[c].kws) |->
            normalize_for_match(FEATURE_KEYWORDS[c].kws[k])]]

\* keyword_coverage(doc_texts): cov[c][k] is cov[cat][kw] for the k-th
\* keyword of the c-th category.
CoverageOf(norm_text) ==
    [c \in 1..Len(FEATURE_KEYWORDS) |->
        [k \in 1..Len(FEATURE_KEYWORDS[c].kws) |->
            Contains(norm_text, NormKeywords[c][k])]]
keyword_coverage(doc_texts) == CoverageOf(normalize_for_match(JoinLines(doc_texts)))

\* coverage_score(cov) = present / total * 100.0, as the fraction
\* << present * 100, total >> (<< 0, 1 >> when there is no keyword).
KeywordSlots ==
    UNION { { << c, k >> : k \in 1..Len(FEATURE_KEYWORDS[c].kws) } :
            c \in 1..Len(FEATURE_KEYWORDS) }
\* coverage_score counting the absent keywords.
ScoreOfAbsent(present, total) ==
    IF total # 0 THEN << (total - present) * 100, total >> ELSE << 0, 1 >>
Score(present, total) == IF total # 0 THEN << present * 100, total >> ELSE << 0, 1 >>
coverage_score(cov) ==
    Score(Cardinality({ ck \in KeywordSlots : cov[ck[1]][ck[2]] }),
          Cardinality(KeywordSlots))

\* A variant of the format spec that truncates to one decimal place.
Fmt1Truncating(x) == (10 * x[1]) \div x[2]
\* format(x, ".1f") of the fraction n/d, in tenths.
Fmt1(x) == (20 * x[1] + x[2]) \div (2 * x[2])

(***************************************************************************)
(* spec_diff.py: the report and its rendering                              *)
(***************************************************************************)

\* load_previous_report(): {} when the file is absent or json.loads fails,
\* else whatever JSON value the file holds.
load_previous_report(file) ==
    IF file.t \in { "missing", "garbage" } THEN EmptyDict ELSE file

\* main, lines 250-256: mapping_data is None unless the artifact parses.
load_mapping_data(file) ==
    IF file.t \in { "missing", "garbage" } THEN JNull ELSE file

\* float(x) and int(x) of a JSON value: numbers and booleans convert, a
\* string converts when it is a decimal literal (digits, in the model), and
\* None, lists and dicts raise TypeError.
IsDigitsText(q) == q # << >> /\ \A i \in 1..Len(q) : q[i] \in Digits
DigitVal(c) == Ord(c) - Ord("0")
RECURSIVE ParseInt(_)
ParseInt(q) ==
    IF q = << >> THEN 0 ELSE 10 * ParseInt(SubSeq(q, 1, Len(q) - 1)) + DigitVal(q[Len(q)])
NumberOk(j) == j.t \in { "num", "bool" } \/ (j.t = "str" /\ IsDigitsText(j.v))
FloatOf(j) ==
    CASE j.t = "num"  -> j.v
      [] j.t = "bool" -> << IF j.v THEN 1 ELSE 0, 1 >>
      [] j.t = "str"  -> << ParseInt(j.v), 1 >>
Truncate(x) == << x[1] \div x[2], 1 >>
IntOf(j) == Truncate(FloatOf(j))
JOfNumber(x) == JNum(x[1], x[2])

\* main, lines 268-273: the "section_mapping" value of the report.
\* raised: .get on a truthy value that is not a dict, or float()/int() of a
\* value that does not convert.
SectionMappingRaises(mapping_data) ==
    Truthy(mapping_data)
    /\ (~IsDict(mapping_data)
        \/ ~NumberOk(Get(mapping_data, K_section_coverage_percent, JNum(0, 1)))
        \/ ~NumberOk(Get(mapping_data, K_mapped_section_count, JNum(0, 1)))
        \/ ~NumberOk(Get(mapping_data, K_total_section_count, JNum(0, 1))))
SectionMapping(mapping_data) ==
    IF Truthy(mapping_data)
    THEN JDict(K_section_coverage_percent
                    :> JOfNumber(FloatOf(Get(mapping_data, K_section_coverage_percent,
                                             JNum(0, 1))))
               @@ K_mapped_section_count
                    :> JOfNumber(IntOf(Get(mapping_data, K_mapped_section_count,
                                           JNum(0, 1))))
               @@ K_total_section_count
                    :> JOfNumber(IntOf(Get(mapping_data, K_total_section_count,
                                           JNum(0, 1))))
               @@ K_unmapped_sections
                    :> Get(mapping_data, K_unmapped_sections, JList(<< >>)))
    ELSE JDict(K_section_coverage_percent :> JNull
               @@ K_mapped_section_count :> JNull
               @@ K_total_section_count :> JNull
               @@ K_unmapped_sections :> JNull)

\* main, line 285: the mapping_summary handed to generate_markdown, None
\* (JNull) when the report's section_coverage_percent is None.
MappingSummaryArg(section_mapping) ==
    IF Get(section_mapping, K_section_coverage_percent, JNull) # JNull
    THEN section_mapping
    ELSE JNull

\* A threshold: an argparse float, a fraction << n, d >>; nan is kept as the
\* fraction with denominator 0.  A comparison with nan is false.
Num(n) == << n, 1 >>
NaN == << 0, 0 >>
IsNaN(threshold) == threshold[2] = 0
ScoreGE(score, threshold) ==
    ~IsNaN(threshold) /\ score[1] * threshold[2] >= threshold[1] * score[2]
ScoreLT(score, threshold) ==
    ~IsNaN(threshold) /\ score[1] * threshold[2] < threshold[1] * score[2]

\* main, line 261: {s.title: asdict(s) for s in sections}; a repeated title
\* keeps its last SectionInfo.
TitlesOf(infos) == { infos[i].title : i \in 1..Len(infos) }
\* The dict comprehension keeping the first entry of a repeated title.
FirstIndexOf(infos, title) ==
    CHOOSE i \in 1..Len(infos) :
        /\ infos[i].title = title
        /\ \A j \in 1..(i - 1) : infos[j].title # title
LastIndexOf(infos, title) ==
    CHOOSE i \in 1..Len(infos) :
        /\ infos[i].title = title
        /\ \A j \in (i + 1)..Len(infos) : infos[j].title # title
AsDict(s) ==
    JDict(K_title :> JStr(s.title) @@ K_hash :> JStr(s.hash) @@ K_changed :> JBool(s.changed))
\* The snapshot recording only the sections marked changed.
SectionsDictOfChanged(infos) ==
    JDict([title \in { t \in TitlesOf(infos) : infos[LastIndexOf(infos, t)].changed } |->
              AsDict(infos[LastIndexOf(infos, title)])])
SectionsDict(infos) ==
    JDict([title \in TitlesOf(infos) |-> AsDict(infos[LastIndexOf(infos, title)])])

\* main, lines 239-242.  prev.keys() raises on a truthy value that is not
\* a dict.
PrevTitlesRaises(prev) == Truthy(prev) /\ ~IsDict(prev)
PrevTitles(prev) == IF Truthy(prev) THEN DOMAIN prev.v ELSE {}
\* A variant of line 241 that does not subtract the snapshot's titles.
NewSectionsWithoutDifference(current_titles, prev_titles) == SortedList(current_titles)
NewSections(current_titles, prev_titles) == SortedList(current_titles \ prev_titles)
RemovedSections(current_titles, prev_titles) == SortedList(prev_titles \ current_titles)

JStrList(q) == JList([i \in 1..Len(q) |-> JStr(q[i])])

\* The report's "keyword_coverage" {cat: {kw: present}} and its
\* "uncovered_keywords" {cat: [kw, ...]}, kept as the sets of (category,
\* keyword) positions of FEATURE_KEYWORDS reported present, and absent.
PresentSlots(cov) == { ck \in KeywordSlots : cov[ck[1]][ck[2]] }
AbsentSlots(cov) == { ck \in KeywordSlots : ~cov[ck[1]][ck[2]] }
CoverageDict(cov) == [t |-> "coverage", v |-> PresentSlots(cov)]
UncoveredDict(cov) == [t |-> "uncovered", v |-> AbsentSlots(cov)]

\* main, lines 258-275: the report (the timestamp, a wall-clock value, and
\* the constant spec_file path are left out).
Report(infos, new_sections, removed_sections, cov, cov_score, section_mapping, threshold) ==
    JDict(K_sections :> SectionsDict(infos)
          @@ K_new_sections :> JStrList(new_sections)
          @@ K_removed_sections :> JStrList(removed_sections)
          @@ K_keyword_coverage_percent :> JNum(cov_score[1], cov_score[2])
          @@ K_keyword_coverage :> CoverageDict(cov)
          @@ K_uncovered_keywords :> UncoveredDict(cov)
          @@ K_section_mapping :> section_mapping
          @@ K_coverage_threshold_met :> JBool(ScoreGE(cov_score, threshold)))

\* generate_markdown.  The rendering is kept as the blocks it prints:
\*   rows            the section table, one row per SectionInfo
\*   structure       whether "## Structure Changes" is printed, with the
\*                   new and removed titles it lists
\*   cov_score_1f    the overall keyword coverage as printed (tenths)
\*   cov             the keyword table: the positions marked present
\*   uncovered       the keywords listed under "### Uncovered Keywords"
\*                   (the block is printed when there is one)
\*   mapping         whether the "Section Mapping Coverage" block is
\*                   printed, with the values it prints
\* ("Generated:", a wall-clock value, is left out.)
\* The first 12 hex digits of a digest, s.hash[:12]: kept as the digest (no
\* two digests of the model share that prefix).
HashPrefix(h) == h
MarkdownRows(sections) ==
    [i \in 1..Len(sections) |->
        [title |-> sections[i].title,
         hash |-> HashPrefix(sections[i].hash),
         changed |-> sections[i].changed]]

\* "unmapped = mapping_summary.get('unmapped_sections', []) or []" and the
\* loop over it: a truthy number or boolean is not iterable (TypeError); a
\* list prints its items and a string its characters.
OrEmptyList(u) == IF Truthy(u) THEN u ELSE JList(<< >>)
UnmappedOf(mapping_summary) ==
    OrEmptyList(Get(mapping_summary, K_unmapped_sections, JList(<< >>)))
UnmappedRaises(mapping_summary) ==
    mapping_summary # JNull /\ UnmappedOf(mapping_summary).t \in { "num", "bool" }
IterItems(u) ==
    CASE u.t = "list" -> u.v
      [] u.t = "str"  -> [i \in 1..Len(u.v) |-> JStr(<< u.v[i] >>)]
UnmappedLines(mapping_summary) == IterItems(UnmappedOf(mapping_summary))

NoMappingBlock ==
    [present |-> FALSE, percent_1f |-> 0, mapped |-> JNull, total |-> JNull,
     unmapped |-> << >>]
MappingBlock(mapping_summary) ==
    IF mapping_summary = JNull THEN NoMappingBlock
    ELSE [present |-> TRUE,
          percent_1f |-> Fmt1(Get(mapping_summary, K_section_coverage_percent,
                                  JNum(0, 1)).v),
          mapped |-> Get(mapping_summary, K_mapped_section_count, JNum(0, 1)),
          total |-> Get(mapping_summary, K_total_section_count, JNum(0, 1)),
          unmapped |-> UnmappedLines(mapping_summary)]

generate_markdown(sections, cov, cov_score, new_sections, removed_sections, mapping_summary) ==
    [t |-> "md",
     v |-> [rows |-> MarkdownRows(sections),
            structure |-> (new_sections # << >> \/ removed_sections # << >>),
            new_sections |-> new_sections,
            removed_sections |-> removed_sections,
            cov_score_1f |-> Fmt1(cov_score),
            cov |-> PresentSlots(cov),
            uncovered |-> AbsentSlots(cov),
            mapping |-> MappingBlock(mapping_summary)]]

(***************************************************************************)
(* spec_test_map.py: the annotation scanner and the mapping artifact       *)
(***************************************************************************)

\* sec_re.match(line.strip()), '^## +(.+)$' on the stripped line: the
\* match is << >> (None) or << m.group(1).strip() >>.
SecOfStripped(s) ==
    IF Len(s) >= 4 /\ SubSeq(s, 1, 3) = << "#", "#", " " >>
    THEN << Strip(SubSeq(s, 4, Len(s))) >>
    ELSE << >>
sec_re(line) == SecOfStripped(Strip(line))
\* Lines 24-30: SPEC_SECTIONS, the titles in document order.
RECURSIVE SPEC_SECTIONS(_)
SPEC_SECTIONS(lines) ==
    IF lines = << >> THEN << >>
    ELSE sec_re(lines[1]) \o SPEC_SECTIONS(Tail(lines))

\* annot_re, '^\s*///\s*@spec\s+(.+)$': after the optional indentation
\* "///", optional blanks, "@spec", at least one blank and at least one more
\* character.  The match is << >> (None) or << a.group(1).strip() >>.
W_slashes == << "/", "/", "/" >>
W_spec == << "@", "s", "p", "e", "c" >>
DropPrefix(s, n) == SubSeq(s, n + 1, Len(s))
AnnotOfSpecTail(c) == IF Len(c) >= 2 /\ IsSpace(c[1]) THEN << Strip(c) >> ELSE << >>
AnnotOfSlashTail(b) ==
    IF StartsWith(b, W_spec) THEN AnnotOfSpecTail(DropPrefix(b, Len(W_spec))) ELSE << >>
AnnotOfHead(a) ==
    IF StartsWith(a, W_slashes)
    THEN AnnotOfSlashTail(LStrip(DropPrefix(a, Len(W_slashes))))
    ELSE << >>
annot_re(line) == AnnotOfHead(LStrip(line))

\* fn_name_re, '^\s*(?:pub\s+)?(?:async\s+)?fn\s+([a-zA-Z0-9_]+)\s*\(' :
\* the match is << >> (None) or << m.group(1) >>.
W_pub == << "p", "u", "b" >>
W_async == << "a", "s", "y", "n", "c" >>
W_fn == << "f", "n" >>
IsNameChar(c) ==
    \/ c \in Digits
    \/ c = "_"
    \/ \E i \in 1..Len(Lower) : Lower[i] = c \/ Upper[i] = c
\* (?:word\s+)? at the head of s.
SkipWord(s, word) ==
    IF StartsWith(s, word) /\ Len(s) > Len(word) /\ IsSpace(s[Len(word) + 1])
    THEN LStrip(DropPrefix(s, Len(word)))
    ELSE s
RECURSIVE NameRun(_)
NameRun(s) ==
    IF s # << >> /\ IsNameChar(s[1]) THEN << s[1] >> \o NameRun(Tail(s)) ELSE << >>
FnOfName(name, t) ==
    IF name # << >> /\ StartsWith(LStrip(DropPrefix(t, Len(name))), << "(" >>)
    THEN << name >>
    ELSE << >>
FnOfTail(t) == FnOfName(NameRun(t), t)
FnOfHead(h) ==
    IF StartsWith(h, W_fn) /\ Len(h) > Len(W_fn) /\ IsSpace(h[Len(W_fn) + 1])
    THEN FnOfTail(LStrip(DropPrefix(h, Len(W_fn))))
    ELSE << >>
fn_name_re(line) == FnOfHead(SkipWord(SkipWord(LStrip(line), W_pub), W_async))

\* Line 42: the test identifier "<relative path>::<fn name>".
Ident(path, fn) == path \o << ":", ":" >> \o fn

\* flush(), lines 40-46, for one function: every pending annotation gets
\* the identifier appended to its bucket unless the bucket holds it.
\* spec_map is a function from the annotated texts to their buckets.
\* flush() without the test of line 45, "if ident not in bucket".
AddIdentWithoutTest(spec_map, sec, ident) ==
    [s \in DOMAIN spec_map \cup { sec } |->
        IF s \notin DOMAIN spec_map THEN << ident >>
        ELSE IF s = sec THEN Append(spec_map[s], ident) ELSE spec_map[s]]
\* flush() moving an identifier the bucket already holds to its end.
AddIdentMovingLast(spec_map, sec, ident) ==
    [s \in DOMAIN spec_map \cup { sec } |->
        IF s \notin DOMAIN spec_map THEN << ident >>
        ELSE IF s = sec
        THEN Append(SelectSeq(spec_map[s], LAMBDA x : x # ident), ident)
        ELSE spec_map[s]]
AddIdent(spec_map, sec, ident) ==
    IF sec \in DOMAIN spec_map
    THEN IF \E i \in 1..Len(spec_map[sec]) : spec_map[sec][i] = ident
         THEN spec_map
         ELSE [spec_map EXCEPT ![sec] = Append(@, ident)]
    ELSE [s \in DOMAIN spec_map \cup { sec } |->
             IF s = sec THEN << ident >> ELSE spec_map[s]]
\* A flush that first takes the identifier out of every bucket, so that
\* the function flushed last replaces what an earlier one of the same
\* identifier bound.
WithoutIdent(bucket, ident) == SelectSeq(bucket, LAMBDA x : x # ident)
flushOverwriting(spec_map, current_annots, ident) ==
    [s \in { k \in DOMAIN spec_map : WithoutIdent(spec_map[k], ident) # << >> }
            \cup Range(current_annots) |->
        IF s \in Range(current_annots)
        THEN (IF s \in DOMAIN spec_map THEN WithoutIdent(spec_map[s], ident) ELSE << >>)
                 \o << ident >>
        ELSE WithoutIdent(spec_map[s], ident)]
RECURSIVE flush(_, _, _)
flush(spec_map, current_annots, ident) ==
    IF current_annots = << >> THEN spec_map
    ELSE flush(AddIdent(spec_map, current_annots[1], ident), Tail(current_annots), ident)

\* Lines 56-66: one line of a test file.  The scanner's state is the pair
\* << current_annots, spec_map >>; a and m are the two matches of the line.
\* The scan loop without line 65, "current_annots = []".
ScanMatchedKeepingAnnots(st, path, a, m) ==
    IF m # << >>
    THEN << st[1] \o a, flush(st[2], st[1] \o a, Ident(path, m[1])) >>
    ELSE << st[1] \o a, st[2] >>
ScanMatched(st, path, a, m) ==
    IF m # << >>
    THEN << << >>, flush(st[2], st[1] \o a, Ident(path, m[1])) >>
    ELSE << st[1] \o a, st[2] >>
ScanLine(st, path, line) == ScanMatched(st, path, annot_re(line), fn_name_re(line))
RECURSIVE ScanLines(_, _, _)
ScanLines(st, path, lines) ==
    IF lines = << >> THEN st
    ELSE ScanLines(ScanLine(st, path, lines[1]), path, Tail(lines))
\* A scan that flushes the annotations pending at the end of a file to an
\* identifier without a function name.
ScanFileFlushingAtEnd(spec_map, path, lines) ==
    flush(ScanLines(<< << >>, spec_map >>, path, lines)[2],
          ScanLines(<< << >>, spec_map >>, path, lines)[1], Ident(path, << >>))
\* Lines 52-66: one file; annotations pending at its end are dropped.
ScanFile(spec_map, path, lines) == ScanLines(<< << >>, spec_map >>, path, lines)[2]

\* A test file is << path, lines >>.  Lines 48-49: the files the first
\* pattern of TEST_GLOBS yields, then those the second yields: a file under
\* a src/tests directory matches both.
W_src_tests == << "s", "r", "c", "/", "t", "e", "s", "t", "s", "/" >>
InSrcTests(file) == Contains(file[1], W_src_tests)
GlobResults(files) == files \o SelectSeq(files, InSrcTests)
RECURSIVE ScanAll(_, _)
ScanAll(spec_map, paths) ==
    IF paths = << >> THEN spec_map
    ELSE ScanAll(ScanFile(spec_map, paths[1][1], paths[1][2]), Tail(paths))
EmptyMap == [s \in {} |-> << >>]
ScanTests(files) == ScanAll(EmptyMap, GlobResults(files))

\* Lines 70 and 72: the ten prefixes "1." .. "10.".
NumberedPrefixes ==
    { << "1", "." >>, << "2", "." >>, << "3", "." >>, << "4", "." >>, << "5", "." >>, << "6", "." >>, << "7", "." >>, << "8", "." >>, << "9", "." >>, << "1", "0", "." >> }
IsNumbered(s) == \E prefix \in NumberedPrefixes : StartsWith(s, prefix)
Numbered(sections) == SelectSeq(sections, IsNumbered)
Unmapped(sections, spec_map) ==
    SelectSeq(sections, LAMBDA s : IsNumbered(s) /\ s \notin DOMAIN spec_map)
\* Line 73, as a fraction.
SectionCoverage(mapped, total_numbered) ==
    IF total_numbered # 0 THEN << mapped * 100, total_numbered >> ELSE << 0, 1 >>
\* Line 74: the report written to JSON_OUT.
MapReportOf(spec_map, unmapped, mapped, total_numbered) ==
    JDict(K_sections :> JDict([s \in DOMAIN spec_map |-> JStrList(spec_map[s])])
          @@ K_unmapped_sections :> JStrList(unmapped)
          @@ K_section_coverage_percent
               :> JOfNumber(SectionCoverage(mapped, total_numbered))
          @@ K_mapped_section_count :> JNum(mapped, 1)
          @@ K_total_section_count :> JNum(total_numbered, 1))
MapReport(sections, spec_map) ==
    MapReportOf(spec_map, Unmapped(sections, spec_map), Cardinality(DOMAIN spec_map),
                Len(Numbered(sections)))
\* Lines 93-107: the generated part of MD_OUT (the lines kept above the
\* marker are left out): the summary line, a row per key of spec_map in
\* sorted order, and the unmapped titles.
MapMarkdownOf(spec_map, keys, unmapped, mapped, total_numbered) ==
    [t |-> "mapmd",
     v |-> [percent_1f |-> Fmt1(SectionCoverage(mapped, total_numbered)),
            mapped |-> mapped,
            total |-> total_numbered,
            rows |-> [i \in 1..Len(keys) |-> << keys[i], spec_map[keys[i]] >>],
            unmapped |-> unmapped]]
MapMarkdown(sections, spec_map) ==
    MapMarkdownOf(spec_map, SortedList(DOMAIN spec_map), Unmapped(sections, spec_map),
                  Cardinality(DOMAIN spec_map), Len(Numbered(sections)))

(***************************************************************************)
(* State                                                                   *)
(***************************************************************************)

VARIABLES
    specFile,     \* SPEC_FILE: Missing, Unreadable or [t |-> "text", v |-> lines]
    deltaEN,      \* DELTA_DOC_EN: Missing or [t |-> "text", v |-> characters]
    deltaJA,      \* DELTA_DOC_JA
    jsonReport,   \* JSON_REPORT: the snapshot read and the report written
    mdReport,     \* MD_REPORT: Missing or what generate_markdown returned
    mappingFile,  \* spec/spec_test_mapping.json
    last,         \* the outcome of the primary run that has just ended
    pending,      \* the section whose body the edit since the last
                  \* successful run mutated (0: none, or another edit)
    added,        \* the keyword occurrence the edit since the last run
                  \* added to DELTA_DOC_EN: << category, keyword, position,
                  \* length before >> (<< >>: none)
    testFiles,    \* the Rust test files, in the order the globs yield them
    mappingMd,    \* docs/SPEC_TEST_MAPPING.md (MD_OUT of spec_test_map.py)
    lastMap,      \* the outcome of the secondary run that has just ended
    inv,          \* two primary invocations running at once: inv[p] is
                  \* << position of p in main, what p loaded as snapshot >>
    jsonWriter    \* the invocation that wrote JSON_REPORT last (0: none)

fileVars == << specFile, deltaEN, deltaJA, jsonReport, mdReport, mappingFile >>
mapVars == << testFiles, mappingMd, lastMap >>
raceVars == << inv, jsonWriter >>
vars ==
    << specFile, deltaEN, deltaJA, jsonReport, mdReport, mappingFile, last, pending, added,
       testFiles, mappingMd, lastMap, inv, jsonWriter >>

Unreadable == [t |-> "unreadable", v |-> 0]
TextFile(content) == [t |-> "text", v |-> content]

\* argparse's default for --threshold.
DefaultThreshold == 70

\* No primary run has ended since the last change of an input.
NoRun ==
    [ran |-> FALSE, exit |-> 0, raised |-> FALSE, warning |-> FALSE,
     infos |-> << >>, new_sections |-> << >>, removed_sections |-> << >>,
     score |-> << 0, 1 >>, threshold |-> Num(DefaultThreshold),
     consecutive |-> FALSE, mutated |-> 0, added |-> << >>]

\* The two invocations, before either has read anything.
Invocations == { 1, 2 }
NotStarted == [p \in Invocations |-> << "start", << >> >>]

\* No secondary run has ended since the last change of an input.
NoMapRun == [ran |-> FALSE, raised |-> FALSE, sections |-> << >>, spec_map |-> EmptyMap]

(***************************************************************************)
(* spec_diff.py: main                                                      *)
(***************************************************************************)

\* read_text(path): "" for a path that does not exist; any other failure of
\* read_text (PermissionError, ...) is not caught.
ReadRaises(file) == file.t = "unreadable"
read_text(file) == IF file.t = "text" THEN file.v ELSE << >>

\* A variant of main without the early return of lines 233-235.
SpecNotFoundIgnored(spec_text) == FALSE
\* main, line 233: "if not spec_text".
SpecNotFound(spec_text) == spec_text = << >>

\* What one run of main(threshold) does, as a record:
\*   exit, raised   the exit code; raised: by an uncaught exception
\*   json, md       the contents of JSON_REPORT and MD_REPORT afterwards
\*   warning        whether the WARNING line went to stderr
\*   wrote          whether the run reached line 277
\* A run that returns 1 or raises before line 277 writes nothing.
Failed(byException) ==
    [exit |-> 1, raised |-> byException, warning |-> FALSE, wrote |-> FALSE,
     json |-> jsonReport, md |-> mdReport,
     infos |-> << >>, new_sections |-> << >>, removed_sections |-> << >>,
     score |-> << 0, 1 >>]

\* main, lines 277-294: JSON_REPORT is written, then generate_markdown is
\* evaluated (it may raise) and MD_REPORT is written.
MainWrite(threshold, sections, new_sections, removed_sections, cov, cov_score, report, summary) ==
    [exit |-> IF UnmappedRaises(summary) THEN 1 ELSE 0,
     raised |-> UnmappedRaises(summary),
     warning |-> ~UnmappedRaises(summary) /\ ScoreLT(cov_score, threshold),
     wrote |-> TRUE,
     json |-> report,
     md |-> IF UnmappedRaises(summary) THEN mdReport
            ELSE generate_markdown(sections, cov, cov_score, new_sections,
                                   removed_sections, summary),
     infos |-> sections, new_sections |-> new_sections,
     removed_sections |-> removed_sections, score |-> cov_score]

\* main, lines 258-275.
MainReport(threshold, sections, new_sections, removed_sections, cov, cov_score, section_mapping) ==
    MainWrite(threshold, sections, new_sections, removed_sections, cov, cov_score,
              Report(sections, new_sections, removed_sections, cov, cov_score,
                     section_mapping, threshold),
              MappingSummaryArg(section_mapping))

\* main, lines 244-256.
MainCoverage(threshold, sections, new_sections, removed_sections, cov, mapping_data) ==
    IF SectionMappingRaises(mapping_data) THEN Failed(TRUE)
    ELSE MainReport(threshold, sections, new_sections, removed_sections, cov,
                    coverage_score(cov), SectionMapping(mapping_data))

\* main, lines 238-242.
MainSections(threshold, prev, built) ==
    IF built.raised \/ PrevTitlesRaises(prev) THEN Failed(TRUE)
    ELSE IF ReadRaises(deltaEN) \/ ReadRaises(deltaJA) THEN Failed(TRUE)
    ELSE MainCoverage(threshold, built.infos,
                      NewSections(TitlesOf(built.infos), PrevTitles(prev)),
                      RemovedSections(TitlesOf(built.infos), PrevTitles(prev)),
                      keyword_coverage(<< read_text(deltaEN), read_text(deltaJA) >>),
                      load_mapping_data(mappingFile))

\* main, line 237.
MainPrevious(threshold, spec_text, prev) ==
    MainSections(threshold, prev, build_section_infos(spec_text, prev))

\* main, lines 232-237.
MainLoaded(threshold, spec_text, loaded) ==
    IF SpecNotFound(spec_text) THEN Failed(FALSE)
    ELSE IF ~IsDict(loaded) THEN Failed(TRUE)
    ELSE MainPrevious(threshold, spec_text, Get(loaded, K_sections, EmptyDict))

MainOutcome(threshold) ==
    IF ReadRaises(specFile) THEN Failed(TRUE)
    ELSE MainLoaded(threshold, read_text(specFile), load_previous_report(jsonReport))

\* The effect of a run on the files, and its outcome as the caller sees it.
MainEffect(threshold, out) ==
    /\ jsonReport' = out.json
    /\ mdReport' = out.md
    /\ last' = [ran |-> TRUE, exit |-> out.exit, raised |-> out.raised,
                warning |-> out.warning, infos |-> out.infos,
                new_sections |-> out.new_sections,
                removed_sections |-> out.removed_sections,
                score |-> out.score, threshold |-> threshold,
                consecutive |-> last.ran, mutated |-> pending, added |-> added]
    /\ pending' = 0
    /\ added' = << >>
    /\ UNCHANGED raceVars
    /\ lastMap' = NoMapRun
    /\ UNCHANGED << specFile, deltaEN, deltaJA, mappingFile, testFiles, mappingMd >>

\* One primary run: python scripts/spec_diff.py --threshold <threshold>.
main(threshold) == MainEffect(threshold, MainOutcome(threshold))

\* A step of the primary command (every other step resets last).
MainStep == last'.ran /\ UNCHANGED specFile
\* The run that has just ended wrote both reports and returned 0.
RunSucceeded == last.ran /\ last.exit = 0

(***************************************************************************)
(* Spec: the primary command run again and again on a document that is     *)
(* edited between runs, starting from any snapshot file.                   *)
(***************************************************************************)

\* The lines of the documents: "## A", "## B", "x" and the empty line.
H_A == << "#", "#", " ", "A" >>
H_B == << "#", "#", " ", "B" >>
L_x == << "x" >>
L_blank == << >>
DriftLines == { H_A, H_B, L_x, L_blank }
T_A == << "A" >>
T_B == << "B" >>

\* The longest document, in lines.
MaxLines == 3
Docs == UNION { [1..n -> DriftLines] : n \in 0..MaxLines }
DocStates == { Missing, Unreadable } \cup { TextFile(d) : d \in Docs }

\* The snapshot files a first run may find: none, text that is not JSON,
\* JSON that is not an object, objects whose "sections" is not an object of
\* objects, and report-shaped objects recording a hash (or null) for any of
\* the titles.
SnapshotHashes == { JStr(sha256(<< >>)), JStr(sha256(<< "x" >>)), JNull }
SnapshotShaped ==
    UNION { { JDict(K_sections :> JDict([t \in S |-> JDict(K_hash :> f[t])])) :
                f \in [S -> SnapshotHashes] } : S \in SUBSET { T_A, T_B } }
SnapshotMisshaped ==
    { JNull, JList(<< >>), JList(<< JStr(T_A) >>), JStr(T_A), JNum(1, 1),
      EmptyDict,
      JDict(K_sections :> JNull),
      JDict(K_sections :> JList(<< >>)),
      JDict(K_sections :> JList(<< JStr(T_A) >>)),
      JDict(K_sections :> JStr(T_A)),
      JDict(K_sections :> JDict(T_A :> JStr(sha256(<< "x" >>)))) }
SnapshotInputs == { Missing, Garbage } \cup SnapshotMisshaped \cup SnapshotShaped

Init ==
    /\ specFile \in DocStates
    /\ jsonReport \in SnapshotInputs
    /\ mdReport = Missing
    /\ mappingFile = Missing
    /\ deltaEN = Missing
    /\ deltaJA = Missing
    /\ last = NoRun
    /\ pending = 0
    /\ added = << >>
    /\ inv = NotStarted
    /\ jsonWriter = 0
    /\ testFiles = << >>
    /\ mappingMd = Missing
    /\ lastMap = NoMapRun

\* e is d with one line replaced, inserted or deleted.
RemoveAt(q, i) == SubSeq(q, 1, i - 1) \o SubSeq(q, i + 1, Len(q))
LineEdit(d, e) ==
    \/ /\ Len(e) = Len(d)
       /\ Cardinality({ i \in 1..Len(d) : d[i] # e[i] }) = 1
    \/ /\ Len(e) = Len(d) + 1
       /\ \E i \in 1..Len(e) : RemoveAt(e, i) = d
    \/ /\ Len(d) = Len(e) + 1
       /\ \E i \in 1..Len(d) : RemoveAt(d, i) = e

\* The one section whose (trimmed) body differs between two documents with
\* the same sequence of titles; 0 when there is no such single section.
MutatedIn(a, b) ==
    IF /\ Len(a) = Len(b)
       /\ \A i \in 1..Len(a) : a[i].title = b[i].title
       /\ Cardinality({ i \in 1..Len(a) : a[i].body # b[i].body }) = 1
    THEN CHOOSE i \in 1..Len(a) : a[i].body # b[i].body
    ELSE 0
MutatedSection(d, e) == MutatedIn(extract_sections(d), extract_sections(e))

\* The documents one line away from each document, and the section each
\* such edit mutates (tabulated once: they depend on the documents alone).
EditTargets == [d \in Docs |-> { e \in Docs : LineEdit(d, e) }]
EditMutates == [d \in Docs |-> [e \in EditTargets[d] |-> MutatedSection(d, e)]]

\* Between two runs the document is edited by one line, removed, made
\* unreadable, or created.
EditSpec(f) ==
    /\ last.ran
    /\ f # specFile
    /\ IF specFile.t = "text" /\ f.t = "text"
       THEN f.v \in EditTargets[specFile.v]
       ELSE TRUE
    /\ specFile' = f
    /\ pending' = IF last.exit = 0 /\ specFile.t = "text" /\ f.t = "text"
                  THEN EditMutates[specFile.v][f.v]
                  ELSE 0
    /\ last' = NoRun
    /\ added' = << >>
    /\ UNCHANGED raceVars
    /\ lastMap' = NoMapRun
    /\ UNCHANGED << deltaEN, deltaJA, jsonReport, mdReport, mappingFile, testFiles, mappingMd >>

Next ==
    \/ main(Num(DefaultThreshold))
    \/ \E f \in DocStates : EditSpec(f)

Spec == Init /\ [][Next]_vars

(***************************************************************************)
(* SpecEnv: the primary command among its optional inputs: the mapping     *)
(* artifact, the two delta documents and the threshold.                    *)
(***************************************************************************)

EnvDocs == { TextFile(<< >>), TextFile(<< H_A >>), TextFile(<< H_A, L_x >>) }
\* No snapshot, or the snapshot of a run on the document "## A".
EnvSnapshots ==
    { Missing,
      JDict(K_sections :> JDict(T_A :> JDict(K_hash :> JStr(sha256(<< >>))))) }

\* The delta documents: absent, or a text naming keywords of
\* FEATURE_KEYWORDS (in another case, or across a line break).
DeltaENInputs == { Missing, TextFile(<< "h", "p", "k", "e", "\n", "L", "o", "w", "_", "P", "o", "w", "e", "r" >>) }
DeltaJAInputs == { Missing, TextFile(<< "K", "y", "b", "e", "r" >>) }

\* The artifact spec_test_map.py writes for sections "1. Overview" and
\* "2. Security" and one test annotated "1. Overview".
S_Overview == << "1", ".", " ", "O", "v", "e", "r", "v", "i", "e", "w" >>
S_Security == << "2", ".", " ", "S", "e", "c", "u", "r", "i", "t", "y" >>
P_example == << "t", "e", "s", "t", "s", "/", "a", ".", "r", "s" >>
ExampleArtifact ==
    MapReport(<< S_Overview, S_Security >>,
              S_Overview :> << Ident(P_example, << "t", "1" >>) >>)
\* The artifact for three numbered sections of which two are annotated:
\* its percent, 200/3, has no exact one-decimal rendering.
S_Transport == << "3", ".", " ", "T", "r", "a", "n", "s", "p", "o", "r", "t" >>
ThirdsArtifact ==
    MapReport(<< S_Overview, S_Security, S_Transport >>,
              S_Overview :> << Ident(P_example, << "t", "1" >>) >>
              @@ S_Security :> << Ident(P_example, << "t", "2" >>) >>)
\* The contents spec/spec_test_mapping.json may have: none, text that is
\* not JSON, JSON that is not an object, objects without the numeric
\* fields or with fields of another type, and well-formed artifacts.
MappingInputs ==
    { Missing, Garbage, JNull, JList(<< >>), JList(<< JNum(1, 1) >>),
      JStr(<< "x" >>), JNum(1, 1), EmptyDict,
      JDict(K_sections :> EmptyDict),
      JDict(K_section_coverage_percent :> JStr(<< "x" >>)),
      JDict(K_section_coverage_percent :> JNull),
      JDict(K_section_coverage_percent :> JStr(<< "5", "0" >>)
            @@ K_mapped_section_count :> JBool(TRUE)
            @@ K_total_section_count :> JNum(5, 2)),
      JDict(K_unmapped_sections :> JNum(5, 1) @@ ExampleArtifact.v),
      JDict(K_unmapped_sections :> JStr(<< "a", "b" >>) @@ ExampleArtifact.v),
      ExampleArtifact,
      ThirdsArtifact,
      MapReport(<< >>, EmptyMap) }

\* --threshold: any float, nan included.
Thresholds == { Num(0), Num(5), Num(DefaultThreshold), NaN }

InitEnv ==
    /\ specFile \in EnvDocs
    /\ jsonReport \in EnvSnapshots
    /\ mappingFile \in MappingInputs
    /\ deltaEN \in DeltaENInputs
    /\ deltaJA \in DeltaJAInputs
    /\ mdReport = Missing
    /\ last = NoRun
    /\ pending = 0
    /\ added = << >>
    /\ inv = NotStarted
    /\ jsonWriter = 0
    /\ testFiles = << >>
    /\ mappingMd = Missing
    /\ lastMap = NoMapRun

\* Between two runs the mapping artifact is replaced or removed.
SetMapping(m) ==
    /\ last.ran
    /\ m # mappingFile
    /\ mappingFile' = m
    /\ last' = NoRun
    /\ pending' = 0
    /\ added' = << >>
    /\ UNCHANGED raceVars
    /\ UNCHANGED << specFile, deltaEN, deltaJA, jsonReport, mdReport, mapVars >>

NextEnv ==
    \/ \E threshold \in Thresholds : main(threshold)
    \/ \E m \in MappingInputs : SetMapping(m)

SpecEnv == InitEnv /\ [][NextEnv]_vars

(***************************************************************************)
(* SpecMap: the secondary command, spec_test_map.py, over documents with   *)
(* numbered and unnumbered headings and annotated test files.              *)
(***************************************************************************)

\* One run of spec_test_map.py.  Opening SPEC_FILE (line 26) raises when
\* the document is absent or unreadable, before anything is written.
MapRaised ==
    /\ lastMap' = [ran |-> TRUE, raised |-> TRUE, sections |-> << >>,
                   spec_map |-> EmptyMap]
    /\ UNCHANGED << mappingFile, mappingMd >>
MapWritten(sections, spec_map) ==
    /\ lastMap' = [ran |-> TRUE, raised |-> FALSE, sections |-> sections,
                   spec_map |-> spec_map]
    /\ mappingFile' = MapReport(sections, spec_map)
    /\ mappingMd' = MapMarkdown(sections, spec_map)
spec_test_map ==
    /\ IF specFile.t # "text" THEN MapRaised
       ELSE MapWritten(SPEC_SECTIONS(specFile.v), ScanTests(testFiles))
    /\ last' = NoRun
    /\ pending' = 0
    /\ added' = << >>
    /\ UNCHANGED raceVars
    /\ UNCHANGED << specFile, deltaEN, deltaJA, jsonReport, mdReport, testFiles >>

\* The headings of the documents.
M_Overview == << "#", "#", " ", "1", ".", " ", "O", "v", "e", "r", "v", "i", "e", "w" >>
M_Security == << "#", "#", " ", "2", ".", " ", "S", "e", "c", "u", "r", "i", "t", "y" >>
M_Intro == << "#", "#", " ", "I", "n", "t", "r", "o" >>
M_Extra == << "#", "#", " ", "1", "1", ".", " ", "E", "x", "t", "r", "a" >>
MapDocLines == { M_Overview, M_Security, M_Intro, M_Extra }
\* The longest document, in lines.
MaxMapLines == 3
MapDocs == UNION { [1..n -> MapDocLines] : n \in 0..MaxMapLines }

\* The lines of the test files: annotations citing a numbered section, an
\* unnumbered one, an attribute line and two function heads.
A_Overview == << "/", "/", "/", " ", "@", "s", "p", "e", "c", " ", "1", ".", " ", "O", "v", "e", "r", "v", "i", "e", "w" >>
A_Security == << "/", "/", "/", " ", "@", "s", "p", "e", "c", " ", "2", ".", " ", "S", "e", "c", "u", "r", "i", "t", "y" >>
A_Intro == << "/", "/", "/", " ", "@", "s", "p", "e", "c", " ", "I", "n", "t", "r", "o" >>
L_attr == << "#", "[", "t", "e", "s", "t", "]" >>
L_fn1 == << "f", "n", " ", "t", "1", "(", ")", " ", "{" >>
L_fn2 == << " ", " ", " ", " ", "p", "u", "b", " ", "a", "s", "y", "n", "c", " ", "f", "n", " ", "t", "2", " ", "(", ")" >>
TestLines == { A_Overview, A_Security, A_Intro, L_attr, L_fn1, L_fn2 }
\* The longest test file, in lines.
MaxTestLines == 3
TestTexts == UNION { [1..n -> TestLines] : n \in 0..MaxTestLines }
P_a == << "t", "e", "s", "t", "s", "/", "a", ".", "r", "s" >>
P_src_a == << "s", "r", "c", "/", "t", "e", "s", "t", "s", "/", "a", ".", "r", "s" >>
P_b == << "t", "e", "s", "t", "s", "/", "b", ".", "r", "s" >>
SecondTestFile == << P_b, << A_Security, L_fn1 >> >>
\* A test file in which two functions have the same name.
SameNameTest == << A_Overview, L_fn1, A_Security, L_fn1 >>

InitMap ==
    /\ specFile \in { Missing } \cup { TextFile(d) : d \in MapDocs }
    /\ testFiles \in { << << path, text >> >> : path \in { P_a, P_src_a }, text \in TestTexts \cup { SameNameTest } }
    /\ mappingFile = Missing
    /\ mappingMd = Missing
    /\ lastMap = NoMapRun
    /\ deltaEN = Missing
    /\ deltaJA = Missing
    /\ jsonReport = Missing
    /\ mdReport = Missing
    /\ last = NoRun
    /\ pending = 0
    /\ added = << >>
    /\ inv = NotStarted
    /\ jsonWriter = 0

\* Between two runs a second test file appears.
AddTestFile ==
    /\ lastMap.ran
    /\ Len(testFiles) = 1
    /\ testFiles' = Append(testFiles, SecondTestFile)
    /\ lastMap' = NoMapRun
    /\ UNCHANGED << specFile, deltaEN, deltaJA, jsonReport, mdReport, mappingFile,
                    mappingMd, last, pending, added, raceVars >>

NextMap ==
    \/ spec_test_map
    \/ AddTestFile

SpecMap == InitMap /\ [][NextMap]_vars

(***************************************************************************)
(* SpecKw: the primary command while occurrences of keywords are added to  *)
(* the English delta document.                                             *)
(***************************************************************************)

\* The delta documents at the start: absent, empty, naming one keyword.
KwDocsEN == { Missing, TextFile(<< >>), TextFile(<< "h", "o", "p" >>) }
KwDocsJA == { Missing, TextFile(<< "p", "q" >>) }
\* Keywords are added to documents of at most this many characters.
MaxDeltaLen == 3

InitKw ==
    /\ specFile = TextFile(<< H_A >>)
    /\ jsonReport = Missing
    /\ mdReport = Missing
    /\ mappingFile = Missing
    /\ deltaEN \in KwDocsEN
    /\ deltaJA \in KwDocsJA
    /\ last = NoRun
    /\ pending = 0
    /\ added = << >>
    /\ inv = NotStarted
    /\ jsonWriter = 0
    /\ testFiles = << >>
    /\ mappingMd = Missing
    /\ lastMap = NoMapRun

InsertAt(text, pos, piece) ==
    SubSeq(text, 1, pos) \o piece \o SubSeq(text, pos + 1, Len(text))
\* Between two runs one occurrence of the normalized form of the k-th
\* keyword of the c-th category is written into DELTA_DOC_EN after its
\* first pos characters (an absent document is created).
AddKeywordTo(text, c, k, pos) ==
    /\ Len(text) <= MaxDeltaLen
    /\ pos <= Len(text)
    /\ deltaEN' = TextFile(InsertAt(text, pos, NormKeywords[c][k]))
    /\ added' = << c, k, pos, Len(text) >>
AddKeyword(c, k, pos) ==
    /\ RunSucceeded
    /\ AddKeywordTo(read_text(deltaEN), c, k, pos)
    /\ last' = NoRun
    /\ pending' = 0
    /\ UNCHANGED << specFile, deltaJA, jsonReport, mdReport, mappingFile, mapVars, raceVars >>

NextKw ==
    \/ main(Num(DefaultThreshold))
    \/ \E ck \in KeywordSlots, pos \in 0..MaxDeltaLen : AddKeyword(ck[1], ck[2], pos)

SpecKw == InitKw /\ [][NextKw]_vars

(***************************************************************************)
(* SpecRace: two primary invocations at once, on the same document and the *)
(* same output paths.  A step is what one invocation does between two of   *)
(* its accesses to the shared files: reading the document and the          *)
(* snapshot, writing JSON_REPORT, writing MD_REPORT.                       *)
(***************************************************************************)

InitRace ==
    /\ specFile \in { TextFile(doc) : doc \in Docs }
    /\ jsonReport \in EnvSnapshots
    /\ mdReport = Missing
    /\ mappingFile = Missing
    /\ deltaEN = Missing
    /\ deltaJA = Missing
    /\ last = NoRun
    /\ pending = 0
    /\ added = << >>
    /\ inv = NotStarted
    /\ jsonWriter = 0
    /\ testFiles = << >>
    /\ mappingMd = Missing
    /\ lastMap = NoMapRun

\* What invocation p computes from the snapshot it loaded.
InvocationOutcome(p) ==
    MainLoaded(Num(DefaultThreshold), read_text(specFile), inv[p][2])
At(p, pc) == inv[p][1] = pc
Goto(p, pc) == inv' = [inv EXCEPT ![p] = << pc, inv[p][2] >>]

\* main, lines 232-237: p reads the document and the snapshot.  A run that
\* returns 1 or raises before line 277 ends here.
LoadedBy(p, loaded) ==
    inv' = [inv EXCEPT ![p] =
              << IF MainLoaded(Num(DefaultThreshold), read_text(specFile), loaded).wrote
                 THEN "loaded" ELSE "done",
                 loaded >>]
LoadSnapshot(p) ==
    /\ At(p, "start")
    /\ LoadedBy(p, load_previous_report(jsonReport))
    /\ UNCHANGED << fileVars, last, pending, added, mapVars, jsonWriter >>

\* main, line 277.
WriteJson(p) ==
    /\ At(p, "loaded")
    /\ jsonReport' = InvocationOutcome(p).json
    /\ jsonWriter' = p
    /\ Goto(p, "json")
    /\ UNCHANGED << specFile, deltaEN, deltaJA, mdReport, mappingFile, last, pending,
                    added, mapVars >>

\* main, lines 278-294.
WriteMd(p) ==
    /\ At(p, "json")
    /\ mdReport' = InvocationOutcome(p).md
    /\ Goto(p, "done")
    /\ UNCHANGED << specFile, deltaEN, deltaJA, jsonReport, mappingFile, last, pending,
                    added, mapVars, jsonWriter >>

\* Both invocations have ended; the command is started twice again.
BothDone == \A p \in Invocations : At(p, "done")
Invoke ==
    /\ BothDone
    /\ inv' = NotStarted
    /\ jsonWriter' = 0
    /\ UNCHANGED << fileVars, last, pending, added, mapVars >>

NextRace ==
    \/ \E p \in Invocations : LoadSnapshot(p) \/ WriteJson(p) \/ WriteMd(p)
    \/ Invoke

SpecRace == InitRace /\ [][NextRace]_vars

(***************************************************************************)
(* SpecHead: the two commands over the same document, whose lines include  *)
(* indented text, a heading marker after leading blanks and a heading      *)
(* whose title is only blanks.                                             *)
(***************************************************************************)

L_indented == << " ", " ", "x" >>
H_lead == << " ", "#", "#", " ", "A" >>
H_spaces == << "#", "#", " ", " " >>
HeadLines == { H_A, H_B, L_x, L_blank, L_indented, H_lead, H_spaces }
\* The longest document, in lines.
MaxHeadLines == 3
HeadDocs == UNION { [1..n -> HeadLines] : n \in 0..MaxHeadLines }

InitHead ==
    /\ specFile \in { TextFile(doc) : doc \in HeadDocs }
    /\ jsonReport = Missing
    /\ mdReport = Missing
    /\ mappingFile = Missing
    /\ deltaEN = Missing
    /\ deltaJA = Missing
    /\ last = NoRun
    /\ pending = 0
    /\ added = << >>
    /\ inv = NotStarted
    /\ jsonWriter = 0
    /\ testFiles = << >>
    /\ mappingMd = Missing
    /\ lastMap = NoMapRun

NextHead ==
    \/ main(Num(DefaultThreshold))
    \/ spec_test_map

SpecHead == InitHead /\ [][NextHead]_vars

(***************************************************************************)
(* SpecBoth: the document is edited and both commands are run, in any      *)
(* order.                                                                  *)
(***************************************************************************)

\* The longest document, in lines.
MaxBothLines == 2
BothDocs == UNION { [1..n -> { M_Overview, M_Security, M_Intro }] : n \in 0..MaxBothLines }

InitBoth ==
    /\ specFile \in { TextFile(doc) : doc \in BothDocs }
    /\ jsonReport = Missing
    /\ mdReport = Missing
    /\ mappingFile = Missing
    /\ deltaEN = Missing
    /\ deltaJA = Missing
    /\ last = NoRun
    /\ pending = 0
    /\ added = << >>
    /\ inv = NotStarted
    /\ jsonWriter = 0
    /\ testFiles = << << P_a, << A_Overview, L_fn1 >> >> >>
    /\ mappingMd = Missing
    /\ lastMap = NoMapRun

\* Between two runs the document is replaced by another text.
ReplaceDocument(doc) ==
    /\ specFile.v # doc
    /\ specFile' = TextFile(doc)
    /\ last' = NoRun
    /\ lastMap' = NoMapRun
    /\ pending' = 0
    /\ added' = << >>
    /\ UNCHANGED raceVars
    /\ UNCHANGED << deltaEN, deltaJA, jsonReport, mdReport, mappingFile, testFiles, mappingMd >>

NextBoth ==
    \/ \E doc \in BothDocs : ReplaceDocument(doc)
    \/ spec_test_map
    \/ main(Num(DefaultThreshold))

SpecBoth == InitBoth /\ [][NextBoth]_vars

(***************************************************************************)
(* Vocabulary of the properties                                            *)
(***************************************************************************)


\* The snapshot as the data model sees it: the titles recorded by the file
\* (none unless it is an object whose "sections" is an object), and the hash
\* recorded for a title (JNull when the entry records none).
HasSections(file) ==
    /\ file.t = "dict"
    /\ K_sections \in DOMAIN file.v
    /\ file.v[K_sections].t = "dict"
SnapshotTitles(file) == IF HasSections(file) THEN DOMAIN file.v[K_sections].v ELSE {}
SnapshotHash(file, title) ==
    IF title \in SnapshotTitles(file) /\ file.v[K_sections].v[title].t = "dict"
    THEN Get(file.v[K_sections].v[title], K_hash, JNull)
    ELSE JNull
\* A file that can be used as a snapshot: report-shaped.
ReportShaped(file) ==
    /\ HasSections(file)
    /\ \A title \in SnapshotTitles(file) :
          /\ file.v[K_sections].v[title].t = "dict"
          /\ SnapshotHash(file, title).t = "str"

\* The titles a JSON list of strings holds.
ListedTitles(j) == { j.v[i].v : i \in 1..Len(j.v) }
\* The sections of the document under specFile, as the data model sees
\* them: (title, trimmed body) per heading.
CurrentSections == extract_sections(specFile.v)
CurrentTitles == { CurrentSections[i].title : i \in 1..Len(CurrentSections) }
\* Some row of the formatted report, or some entry of the JSON report, is
\* marked changed.
MarkdownMarksChanged == \E i \in 1..Len(mdReport.v.rows) : mdReport.v.rows[i].changed
JsonMarksChanged ==
    \E title \in SnapshotTitles(jsonReport) :
        Get(jsonReport.v[K_sections].v[title], K_changed, JBool(FALSE)) = JBool(TRUE)

(***************************************************************************)
(* C1 .. C7: drift detection, under Spec                                   *)
(***************************************************************************)

\* C1 (idempotence): when the primary run is executed twice in a row with
\* no input modified in between, the second run's reports mark no section
\* as changed and list no new and no removed section.
C1_Idempotence ==
    (RunSucceeded /\ last.consecutive) =>
        /\ ~MarkdownMarksChanged
        /\ ~JsonMarksChanged
        /\ \A i \in 1..Len(last.infos) : ~last.infos[i].changed
        /\ jsonReport.v[K_new_sections] = JList(<< >>)
        /\ jsonReport.v[K_removed_sections] = JList(<< >>)

\* C2 (locality of change): when exactly one section's body was mutated
\* since the last successful run, the next run marks that section, and no
\* other, as changed, and lists no new and no removed section.
C2_Locality ==
    (RunSucceeded /\ last.mutated # 0) =>
        /\ \A i \in 1..Len(last.infos) : last.infos[i].changed <=> (i = last.mutated)
        /\ jsonReport.v[K_new_sections] = JList(<< >>)
        /\ jsonReport.v[K_removed_sections] = JList(<< >>)

\* C3: in every run that ends with a report, a section is marked changed
\* if and only if the snapshot read by the run records a hash for its title
\* and that hash differs from the hash of the section's current body; hence
\* no new section is marked changed.
C3_ChangedIffHashDiffers ==
    [][(MainStep /\ last'.exit = 0) =>
          \A i \in 1..Len(last'.infos) :
              /\ last'.infos[i].title = CurrentSections[i].title
              /\ last'.infos[i].changed <=>
                    /\ last'.infos[i].title \in SnapshotTitles(jsonReport)
                    /\ SnapshotHash(jsonReport, last'.infos[i].title) # JNull
                    /\ SnapshotHash(jsonReport, last'.infos[i].title)
                          # JStr(sha256(CurrentSections[i].body))
              /\ mdReport'.v.rows[i].changed = last'.infos[i].changed
              /\ last'.infos[i].title \in ListedTitles(jsonReport'.v[K_new_sections])
                    => ~last'.infos[i].changed]_vars
C3_Witness ==
    /\ RunSucceeded
    /\ \E i, j \in 1..Len(last.infos) : last.infos[i].changed /\ ~last.infos[j].changed
    /\ last.new_sections # << >>

\* C4: in every report, new_sections is exactly the current titles minus
\* the snapshot's titles and removed_sections exactly the snapshot's titles
\* minus the current titles, whatever the hashes; the two are disjoint and a
\* removed title is no current title.
C4_SetDifference ==
    [][(MainStep /\ last'.exit = 0) =>
          LET new == jsonReport'.v[K_new_sections]
              removed == jsonReport'.v[K_removed_sections]
          IN  /\ ListedTitles(new) = CurrentTitles \ SnapshotTitles(jsonReport)
              /\ ListedTitles(removed) = SnapshotTitles(jsonReport) \ CurrentTitles
              /\ Len(new.v) = Cardinality(ListedTitles(new))
              /\ Len(removed.v) = Cardinality(ListedTitles(removed))
              /\ ListedTitles(new) \cap ListedTitles(removed) = {}
              /\ ListedTitles(removed) \cap SnapshotTitles(jsonReport') = {}]_vars
C4_Witness ==
    /\ RunSucceeded
    /\ last.new_sections # << >>
    /\ last.removed_sections # << >>

\* C5: a run that finds no primary document ends with a non-zero exit code
\* and leaves the snapshot file and the formatted report as they were.
C5_MissingDocumentWritesNothing ==
    [][(MainStep /\ specFile.t = "missing") =>
          /\ last'.exit # 0
          /\ jsonReport' = jsonReport
          /\ mdReport' = mdReport]_vars
C5_Witness ==
    /\ last.ran
    /\ specFile.t = "missing"
    /\ last.exit = 1
    /\ jsonReport.t = "dict"
    /\ mdReport.t = "md"

\* C6: a run ends with a non-zero exit code only when the primary document
\* is missing or unreadable; every readable document, an empty one included,
\* gives exit code 0 and both reports.  (Stated for runs that find no
\* snapshot, which cannot get in the way.)
C6_NonZeroOnlyWhenMissing ==
    [][(MainStep /\ specFile.t = "text" /\ jsonReport.t = "missing") =>
          /\ last'.exit = 0
          /\ jsonReport'.t = "dict"
          /\ mdReport'.t = "md"]_vars

\* C7: a run that finds the snapshot missing, unparsable or not
\* report-shaped treats it as an empty baseline: exit code 0, every current
\* title new, no section changed, nothing removed.  (Stated for documents
\* with text, which the run accepts.)
C7_UnusableSnapshotIsEmptyBaseline ==
    [][(MainStep /\ specFile.t = "text" /\ specFile.v # << >>
          /\ ~ReportShaped(jsonReport)) =>
          /\ last'.exit = 0
          /\ ListedTitles(jsonReport'.v[K_new_sections]) = CurrentTitles
          /\ \A i \in 1..Len(last'.infos) : ~last'.infos[i].changed
          /\ jsonReport'.v[K_removed_sections] = JList(<< >>)]_vars

(***************************************************************************)
(* C8, C9: the optional inputs of the primary command, under SpecEnv       *)
(***************************************************************************)

\* A mapping artifact that can be used: an object whose three numeric
\* fields are numbers.
NumericFields == { K_section_coverage_percent, K_mapped_section_count, K_total_section_count }
ValidArtifact(file) ==
    /\ file.t = "dict"
    /\ \A k \in NumericFields : k \in DOMAIN file.v /\ file.v[k].t = "num"

\* C8: whatever the mapping artifact holds, a run on a document with text
\* ends with exit code 0 and writes both reports, and the formatted report
\* has the mapping-coverage block exactly when the artifact was valid (so
\* none when it is missing, unparsable or not such an object).
C8_InvalidArtifactOmitsBlock ==
    [][(MainStep /\ specFile.t = "text" /\ specFile.v # << >>) =>
          /\ last'.exit = 0
          /\ jsonReport'.t = "dict"
          /\ mdReport'.t = "md"
          /\ mdReport'.v.mapping.present <=> ValidArtifact(mappingFile)]_vars

\* C9: for every threshold, a run whose document is readable ends with
\* exit code 0; the report's coverage_threshold_met is true iff its
\* keyword_coverage_percent is >= the threshold, and the warning line is
\* printed iff coverage_threshold_met is false.  (Stated for documents with
\* text and runs that find no mapping artifact, which cannot get in the
\* way.)
C9_ThresholdOnlyWarns ==
    [][(MainStep /\ specFile.t = "text" /\ specFile.v # << >>
          /\ mappingFile.t \in { "missing", "garbage" }) =>
          /\ last'.exit = 0
          /\ LET percent == jsonReport'.v[K_keyword_coverage_percent].v
                 threshold == last'.threshold
                 met == jsonReport'.v[K_coverage_threshold_met]
             IN  /\ met = JBool(/\ ~IsNaN(threshold)
                                /\ percent[1] * threshold[2] >= threshold[1] * percent[2])
                 /\ last'.warning <=> (met = JBool(FALSE))]_vars

(***************************************************************************)
(* C10: the mapping artifact, under SpecMap                                *)
(***************************************************************************)

\* The secondary run that has just ended wrote the artifact.
MapSucceeded == lastMap.ran /\ ~lastMap.raised
\* The numbered titles of the document, and those among them that are keys
\* of the annotation mapping with at least one test identifier.
NumberedTitles == { s \in Range(lastMap.sections) : IsNumbered(s) }
MappedNumberedTitles ==
    { s \in NumberedTitles : s \in DOMAIN lastMap.spec_map /\ lastMap.spec_map[s] # << >> }

\* C10: in the artifact, mapped_section_count is the number of numbered
\* sections of the document whose title is a key of the annotation mapping
\* with at least one test identifier, and section_coverage_percent is
\* mapped_section_count / total_section_count * 100, whatever the
\* annotations cite.
C10_MappedCountIsMappedNumbered ==
    MapSucceeded =>
        LET mapped == Cardinality(MappedNumberedTitles)
            total == mappingFile.v[K_total_section_count].v[1]
            percent == mappingFile.v[K_section_coverage_percent].v
        IN  /\ mappingFile.v[K_mapped_section_count] = JNum(mapped, 1)
            /\ total # 0 => percent[1] * total = mapped * 100 * percent[2]

(***************************************************************************)
(* C11: the JSON report and the formatted report of one run                *)
(***************************************************************************)

\* The run that has just ended passed a mapping summary on: its JSON report
\* carries a section coverage value, and the unmapped titles as a list.
MappingReported ==
    /\ RunSucceeded
    /\ jsonReport.v[K_section_mapping].v[K_section_coverage_percent] # JNull
    /\ jsonReport.v[K_section_mapping].v[K_unmapped_sections].t = "list"

\* C11 as worded: the section coverage value shown in the formatted report
\* is the very value of the JSON report of the same run.
C11_SameValueExactly ==
    MappingReported =>
        LET percent == jsonReport.v[K_section_mapping].v[K_section_coverage_percent].v
        IN  mdReport.v.mapping.percent_1f * percent[2] = 10 * percent[1]

\* C11 (amended): in every run that passes a mapping summary on, the
\* formatted report has the mapping block, the section coverage it shows is
\* the JSON report's value rounded to one decimal place (within 0.05 of it),
\* and the mapped count, the total count and the unmapped list are those of
\* the JSON report.
C11_SameValueAsShown ==
    MappingReported =>
        LET mapping == jsonReport.v[K_section_mapping].v
            percent == mapping[K_section_coverage_percent].v
            shown == mdReport.v.mapping
        IN  /\ shown.present
            /\ 2 * (10 * percent[1] - shown.percent_1f * percent[2]) <= percent[2]
            /\ 2 * (shown.percent_1f * percent[2] - 10 * percent[1]) <= percent[2]
            /\ shown.mapped = mapping[K_mapped_section_count]
            /\ shown.total = mapping[K_total_section_count]
            /\ shown.unmapped = mapping[K_unmapped_sections].v
C11_Witness ==
    /\ MappingReported
    /\ jsonReport.v[K_section_mapping].v[K_section_coverage_percent] = JNum(200, 3)
    /\ mdReport.v.mapping.percent_1f = 667
    /\ mdReport.v.mapping.unmapped # << >>

(***************************************************************************)
(* C12: keyword monotonicity                                               *)
(***************************************************************************)

\* A successful run over documents to which one keyword occurrence was
\* added since the previous successful run, whose report is still on disk.
RunAfterAddition ==
    /\ MainStep
    /\ added # << >>
    /\ ReportShaped(jsonReport)
    /\ last'.exit = 0
KeywordsKept ==
    LET before == jsonReport.v[K_keyword_coverage].v
        after == jsonReport'.v[K_keyword_coverage].v
        percent == jsonReport.v[K_keyword_coverage_percent].v
        percent_after == jsonReport'.v[K_keyword_coverage_percent].v
    IN  /\ << added[1], added[2] >> \in after
        /\ before \subseteq after
        /\ percent_after[1] * percent[2] >= percent[1] * percent_after[2]

SameBody(i, j) == CurrentSections[i].body = CurrentSections[j].body
\* The hash the JSON report records for a title.
ReportedHash(file, title) == file.v[K_sections].v[title].v[K_hash].v

\* C13: sections with identical trimmed bodies get identical hashes,
\* within one run and between a run and the run before it on the same
\* document (which read another snapshot), whatever their titles and
\* positions; the JSON report records these hashes.
C13_HashOfBodyOnly ==
    [][(MainStep /\ last'.exit = 0) =>
          \A i \in 1..Len(last'.infos) :
              /\ \A j \in 1..Len(last'.infos) :
                    SameBody(i, j) => last'.infos[i].hash = last'.infos[j].hash
              /\ RunSucceeded =>
                    \A j \in 1..Len(last.infos) :
                        SameBody(i, j) => last'.infos[i].hash = last.infos[j].hash
              /\ (\A j \in (i + 1)..Len(last'.infos) :
                        last'.infos[j].title # last'.infos[i].title) =>
                    ReportedHash(jsonReport', last'.infos[i].title) = last'.infos[i].hash]_vars

\* A second run on a document in which two sections with different titles
\* have the same trimmed body and different untrimmed ones.
C13_Witness ==
    /\ RunSucceeded
    /\ last.consecutive
    /\ specFile.v = << H_A, L_blank, H_B >>
    /\ last.infos[1].title # last.infos[2].title
    /\ last.infos[1].hash = last.infos[2].hash

(***************************************************************************)
(* C14: the snapshot is wholly replaced                                    *)
(***************************************************************************)

\* Section i is the last one of the document with its title.
LastOccurrence(i) ==
    \A j \in (i + 1)..Len(CurrentSections) :
        CurrentSections[j].title # CurrentSections[i].title

\* C14: after every successful run the titles of the persisted snapshot
\* are exactly the titles of the document the run read, each with the hash
\* of its current trimmed body (of its last occurrence); a title of the
\* earlier snapshot that is no longer in the document is listed as removed
\* by this run, is not in the new snapshot, and a next run on the same
\* document lists no removed section.
C14_SnapshotIsCurrentDocument ==
    [][(MainStep /\ last'.exit = 0) =>
          /\ SnapshotTitles(jsonReport') = CurrentTitles
          /\ \A i \in 1..Len(CurrentSections) :
                LastOccurrence(i) =>
                    ReportedHash(jsonReport', CurrentSections[i].title)
                        = sha256(CurrentSections[i].body)
          /\ ListedTitles(jsonReport'.v[K_removed_sections])
                = SnapshotTitles(jsonReport) \ CurrentTitles
          /\ ListedTitles(jsonReport'.v[K_removed_sections])
                \cap SnapshotTitles(jsonReport') = {}
          /\ RunSucceeded => jsonReport'.v[K_removed_sections] = JList(<< >>)]_vars

\* A run that lists a removed section over a document that repeats a
\* title with different bodies.
C14_Witness ==
    /\ RunSucceeded
    /\ last.removed_sections # << >>
    /\ \E i, j \in 1..Len(CurrentSections) :
          /\ i < j
          /\ CurrentSections[i].title = CurrentSections[j].title
          /\ CurrentSections[i].body # CurrentSections[j].body
    /\ SnapshotTitles(jsonReport) = CurrentTitles

(***************************************************************************)
(* C15: no companion document                                              *)
(***************************************************************************)

\* Neither delta document exists.
NoCompanion == deltaEN = Missing /\ deltaJA = Missing

\* C15: a run that finds neither delta document ends with exit code 0 and
\* reports every keyword of every category absent and a keyword percentage
\* of 0, in both reports.  (Stated for documents with text and runs that
\* find no mapping artifact, which cannot get in the way.)
C15_NoCompanionIsZeroCoverage ==
    [][(MainStep /\ NoCompanion /\ specFile.t = "text" /\ specFile.v # << >>
          /\ mappingFile.t \in { "missing", "garbage" }) =>
          /\ last'.exit = 0
          /\ ~last'.raised
          /\ jsonReport'.v[K_keyword_coverage].v = {}
          /\ jsonReport'.v[K_uncovered_keywords].v = KeywordSlots
          /\ jsonReport'.v[K_keyword_coverage_percent].v[1] = 0
          /\ jsonReport'.v[K_keyword_coverage_percent].v[2] # 0
          /\ mdReport'.v.cov = {}
          /\ mdReport'.v.cov_score_1f = 0]_vars

\* A run without delta documents that warned about a positive threshold.
C15_Witness ==
    /\ RunSucceeded
    /\ NoCompanion
    /\ last.score[1] = 0
    /\ last.warning
    /\ jsonReport.v[K_keyword_coverage].v = {}

(***************************************************************************)
(* C16: two invocations at once                                            *)
(***************************************************************************)

\* C16: when two invocations on the same document and output paths have
\* both ended, however their reads of the snapshot and their writes of the
\* two reports were interleaved, the snapshot file is the whole report of
\* the invocation that wrote it last, and it records exactly the titles of
\* the document, each with the hash of its current body; on a document
\* with text both invocations write.
C16_LastWriterWins ==
    BothDone =>
        /\ specFile.v # << >> => jsonWriter # 0
        /\ jsonWriter # 0 =>
              /\ jsonReport = InvocationOutcome(jsonWriter).json
              /\ ReportShaped(jsonReport)
              /\ SnapshotTitles(jsonReport) = CurrentTitles
              /\ \A i \in 1..Len(CurrentSections) :
                    LastOccurrence(i) =>
                        ReportedHash(jsonReport, CurrentSections[i].title)
                            = sha256(CurrentSections[i].body)

\* Both have ended, the invocation that wrote the snapshot last had loaded
\* another snapshot than the other one, and the document has sections.
C16_Witness ==
    /\ BothDone
    /\ jsonWriter = 1
    /\ inv[1][2] # inv[2][2]
    /\ CurrentTitles # {}
    /\ mdReport.t = "md"

(***************************************************************************)
(* C17..C20: the annotation scanner, under SpecMap                         *)
(***************************************************************************)

\* How the lines of a test file << path, lines >> read: line i carries an
\* annotation, line j a function head; the first function head after
\* line i, if the file has one.
IsAnnot(file, i) == annot_re(file[2][i]) # << >>
IsFn(file, j) == fn_name_re(file[2][j]) # << >>
FnAfter(file, i) == { j \in (i + 1)..Len(file[2]) : IsFn(file, j) }
NextFn(file, i) == CHOOSE j \in FnAfter(file, i) : \A k \in FnAfter(file, i) : j <= k
IdentAt(file, j) == Ident(file[1], fn_name_re(file[2][j])[1])
\* The annotation lines of the file that a function head follows, and what
\* each of them binds.
BoundLines(file) == { i \in 1..Len(file[2]) : IsAnnot(file, i) /\ FnAfter(file, i) # {} }
BindingAt(file, i) == << annot_re(file[2][i])[1], IdentAt(file, NextFn(file, i)) >>
BindingsOf(file) == { BindingAt(file, i) : i \in BoundLines(file) }
\* The (annotated text, identifier) pairs a mapping holds.
PairsOf(spec_map) ==
    UNION { { << sec, spec_map[sec][n] >> : n \in 1..Len(spec_map[sec]) } :
            sec \in DOMAIN spec_map }
\* The scanner's state << current_annots, spec_map >> after the first j
\* lines of a file scanned on its own.
ScanUpTo(file, j) == ScanLines(<< << >>, EmptyMap >>, file[1], SubSeq(file[2], 1, j))

\* C17: when the scanner reads a function head, every annotation read
\* since the previous function head of the file is bound to the identifier
\* of this function and the pending list is empty afterwards; over the
\* whole scan an annotated text is bound to an identifier only where the
\* function is the first one that follows the annotation in the same file.
C17_FlushBindsToNextFunction ==
    MapSucceeded =>
        /\ \A n \in 1..Len(testFiles) :
              \A j \in 1..Len(testFiles[n][2]) :
                  IsFn(testFiles[n], j) =>
                      /\ ScanUpTo(testFiles[n], j)[1] = << >>
                      /\ \A i \in 1..(j - 1) :
                            (IsAnnot(testFiles[n], i) /\ NextFn(testFiles[n], i) = j) =>
                                BindingAt(testFiles[n], i)
                                    \in PairsOf(ScanUpTo(testFiles[n], j)[2])
        /\ PairsOf(lastMap.spec_map)
              = UNION { BindingsOf(testFiles[n]) : n \in 1..Len(testFiles) }

\* A scan of a file with an annotation, a line that matches nothing and a
\* function head, and of a second file.
C17_Witness ==
    /\ MapSucceeded
    /\ Len(testFiles) = 2
    /\ testFiles[1][2] = << A_Overview, L_attr, L_fn2 >>
    /\ DOMAIN lastMap.spec_map = { << "1", ".", " ", "O", "v", "e", "r", "v", "i", "e", "w" >>,
                                   << "2", ".", " ", "S", "e", "c", "u", "r", "i", "t", "y" >> }

\* The annotation lines of a file that no function head follows, and the
\* texts only such lines cite.
PendingAtEnd(file) == { i \in 1..Len(file[2]) : IsAnnot(file, i) /\ FnAfter(file, i) = {} }
BoundTexts ==
    UNION { { pair[1] : pair \in BindingsOf(testFiles[n]) } : n \in 1..Len(testFiles) }
FunctionsOf(file) == { IdentAt(file, j) : j \in { k \in 1..Len(file[2]) : IsFn(file, k) } }

\* C18: an annotation that no function head follows in its file is
\* dropped: its text is no key of the mapping unless an annotation that is
\* bound cites it too, and it is bound to no function of another file
\* that does not cite it itself before that function.
C18_PendingAtEndDropped ==
    MapSucceeded =>
        \A n \in 1..Len(testFiles) :
            \A i \in PendingAtEnd(testFiles[n]) :
                LET sec == annot_re(testFiles[n][2][i])[1]
                IN  /\ sec \notin BoundTexts => sec \notin DOMAIN lastMap.spec_map
                    /\ \A m \in 1..Len(testFiles) :
                          \A ident \in FunctionsOf(testFiles[m]) :
                              << sec, ident >> \in PairsOf(lastMap.spec_map)
                                  => << sec, ident >> \in BindingsOf(testFiles[m])
                    /\ \A pair \in PairsOf(lastMap.spec_map) :
                          \E m \in 1..Len(testFiles) : pair[2] \in FunctionsOf(testFiles[m])

\* A scan of two files: the first ends on an annotation after its only
\* function, the second binds its own annotation to a function of the
\* same name.
C18_Witness ==
    /\ MapSucceeded
    /\ Len(testFiles) = 2
    /\ testFiles[1][2] = << L_fn1, A_Overview >>
    /\ lastMap.spec_map # EmptyMap
    /\ << "1", ".", " ", "O", "v", "e", "r", "v", "i", "e", "w" >> \notin DOMAIN lastMap.spec_map

\* The files in the order the scanner reads them, and whether the first
\* binding of sec to identifier a is read before every binding of sec to
\* identifier b.
Scanned == GlobResults(testFiles)
BoundBefore(sec, a, b) ==
    \E n \in 1..Len(Scanned) :
        \E i \in BoundLines(Scanned[n]) :
            /\ BindingAt(Scanned[n], i) = << sec, a >>
            /\ \A m \in 1..Len(Scanned) :
                  \A k \in BoundLines(Scanned[m]) :
                      BindingAt(Scanned[m], k) = << sec, b >>
                          => (n < m \/ (n = m /\ i < k))

\* C19: after a scan every key of the mapping holds at least one
\* identifier, no identifier twice, and the identifiers in the order in
\* which they were first bound to the key.
C19_BucketsAreOrderedSets ==
    MapSucceeded =>
        \A sec \in DOMAIN lastMap.spec_map :
            LET bucket == lastMap.spec_map[sec]
            IN  /\ bucket # << >>
                /\ \A x, y \in 1..Len(bucket) :
                      x < y => /\ bucket[x] # bucket[y]
                               /\ BoundBefore(sec, bucket[x], bucket[y])

\* Many-to-many: a file read twice binds one identifier under two keys,
\* and one of the keys also holds an identifier of the second file.
C19_Witness ==
    /\ MapSucceeded
    /\ Len(testFiles) = 2
    /\ testFiles[1] = << P_src_a, << A_Overview, A_Security, L_fn1 >> >>
    /\ \E sec \in DOMAIN lastMap.spec_map : Len(lastMap.spec_map[sec]) = 2
    /\ \E s1, s2 \in DOMAIN lastMap.spec_map :
          s1 # s2 /\ lastMap.spec_map[s1][1] = lastMap.spec_map[s2][1]

\* The function heads of a file that define the same name as line j, the
\* texts the annotations bound at line j cite, and the texts a mapping
\* holds an identifier under.
SameName(file, j) ==
    { k \in 1..Len(file[2]) : IsFn(file, k) /\ IdentAt(file, k) = IdentAt(file, j) }
CitedAt(file, j) ==
    { annot_re(file[2][i])[1] : i \in { k \in BoundLines(file) : NextFn(file, k) = j } }
SectionsOf(spec_map, ident) == { pair[1] : pair \in { q \in PairsOf(spec_map) : q[2] = ident } }
\* Line j is the last of two or more function heads of the file with its
\* name.
LastOfSameName(file, j) ==
    /\ j \in 1..Len(file[2])
    /\ IsFn(file, j)
    /\ Cardinality(SameName(file, j)) > 1
    /\ \A k \in SameName(file, j) : k <= j

\* C20 as worded: when two functions of one file have the same name, the
\* later one overwrites the binding of the earlier one: after the scan
\* their common identifier is bound to the sections the later function
\* cites and to no other.
C20_LaterFunctionOverwrites ==
    MapSucceeded =>
        \A n \in 1..Len(testFiles) :
            \A j \in 1..Len(testFiles[n][2]) :
                LastOfSameName(testFiles[n], j) =>
                    SectionsOf(lastMap.spec_map, IdentAt(testFiles[n], j))
                        = CitedAt(testFiles[n], j)

\* C20 (amended): functions of one file with the same name have the same
\* identifier, and after the scan it is bound to the sections any of them
\* cites: the bindings accumulate.
C20_SameNameBindingsAccumulate ==
    MapSucceeded =>
        \A n \in 1..Len(testFiles) :
            \A j \in 1..Len(testFiles[n][2]) :
                LastOfSameName(testFiles[n], j) =>
                    SectionsOf(lastMap.spec_map, IdentAt(testFiles[n], j))
                        = UNION { CitedAt(testFiles[n], k) : k \in SameName(testFiles[n], j) }

\* A scan of a file whose two functions t1 cite different sections: the
\* identifier is bound to both.
C20_Witness ==
    /\ MapSucceeded
    /\ testFiles[1] = << P_a, SameNameTest >>
    /\ Cardinality(SectionsOf(lastMap.spec_map, Ident(P_a, << "t", "1" >>))) = 2

(***************************************************************************)
(* C21, C22: the numbered sections                                         *)
(***************************************************************************)

\* The title begins with an integer followed by a period.
BeginsWithInteger(s) ==
    \E k \in 1..(Len(s) - 1) :
        /\ \A i \in 1..k : s[i] \in Digits
        /\ s[k + 1] = "."
IntegerTitles(sections) == SelectSeq(sections, BeginsWithInteger)

\* C21: a section is counted in total_section_count, and listed in
\* unmapped_sections when it is no key of the mapping, exactly when its
\* title begins with an integer followed by a period, whatever the
\* integer; other sections are never counted.
C21_EveryIntegerCounts ==
    MapSucceeded =>
        /\ mappingFile.v[K_total_section_count]
              = JNum(Len(IntegerTitles(lastMap.sections)), 1)
        /\ \A s \in Range(lastMap.sections) :
              s \in ListedTitles(mappingFile.v[K_unmapped_sections])
                  <=> (BeginsWithInteger(s) /\ s \notin DOMAIN lastMap.spec_map)

\* C22: unmapped_sections is the list of the numbered sections of the
\* document that are no keys of the annotation mapping, in the order of
\* their headings.
C22_UnmappedInDocumentOrder ==
    MapSucceeded =>
        mappingFile.v[K_unmapped_sections]
            = JStrList(SelectSeq(IntegerTitles(lastMap.sections),
                                 LAMBDA s : s \notin DOMAIN lastMap.spec_map))

(***************************************************************************)
(* C23: extract_sections                                                   *)
(***************************************************************************)

\* The document read line by line: the indices of the heading lines, the
\* n-th of them, the lines between it and the next heading line (or the end
\* of the document), and a line of blanks only.
HeadingIndices == { i \in 1..Len(specFile.v) : SECTION_HEADING_RE(specFile.v[i]) }
NthHeading(n) ==
    CHOOSE h \in HeadingIndices : Cardinality({ i \in HeadingIndices : i <= h }) = n
BodyEnd(h) ==
    IF \E i \in HeadingIndices : i > h
    THEN (CHOOSE i \in HeadingIndices : i > h /\ \A k \in HeadingIndices : k > h => i <= k) - 1
    ELSE Len(specFile.v)
LinesBetween(h) == SubSeq(specFile.v, h + 1, BodyEnd(h))
IsBlankLine(line) == \A i \in 1..Len(line) : IsSpace(line[i])
\* The lines without the blank lines before the first and after the last
\* line that is not blank.
WithoutBlankLines(lines) ==
    LET kept == { i \in 1..Len(lines) : ~IsBlankLine(lines[i]) }
    IN  IF kept = {} THEN << >>
        ELSE SubSeq(lines, CHOOSE i \in kept : \A k \in kept : i <= k,
                           CHOOSE i \in kept : \A k \in kept : k <= i)
\* What holds of the sections of a run whatever "trimmed" means: one per
\* heading line, in document order, the lines before the first heading in
\* none, no heading line in a body.
OnePerHeading ==
    /\ Len(last.infos) = Cardinality(HeadingIndices)
    /\ \A n \in 1..Len(last.infos) :
          /\ last.infos[n].title
                = Strip(SubSeq(specFile.v[NthHeading(n)], 4, Len(specFile.v[NthHeading(n)])))
          /\ \A i \in (NthHeading(n) + 1)..BodyEnd(NthHeading(n)) :
                ~SECTION_HEADING_RE(specFile.v[i])
    /\ HeadingIndices = {} => (last.infos = << >> /\ SnapshotTitles(jsonReport) = {})

\* C23 as worded: a run has one section per heading line, in document
\* order, and hashes as the body of each the lines between its heading and
\* the next with the surrounding blank lines removed.
C23_BodiesWithoutBlankLines ==
    RunSucceeded =>
        /\ OnePerHeading
        /\ \A n \in 1..Len(last.infos) :
              last.infos[n].hash
                  = sha256(JoinLines(WithoutBlankLines(LinesBetween(NthHeading(n)))))

\* C23 (amended): the body is the text of those lines with the surrounding
\* whitespace removed: the blank lines, and also the blanks before the
\* first and after the last character that is not blank.
C23_BodiesStripped ==
    RunSucceeded =>
        /\ OnePerHeading
        /\ \A n \in 1..Len(last.infos) :
              last.infos[n].hash = sha256(Strip(JoinLines(LinesBetween(NthHeading(n)))))

\* A run on a document with text before the first heading and an indented
\* line as the body.
C23_Witness ==
    /\ RunSucceeded
    /\ specFile.v = << L_x, H_A, L_indented >>
    /\ Len(last.infos) = 1
    /\ last.infos[1].hash = sha256(L_x)

(***************************************************************************)
(* C24: the two outputs of a run                                           *)
(***************************************************************************)

\* mdReport is the rendering of the sections the run that has just ended
\* found.
RenderedByThisRun(md, run) ==
    /\ md.t = "md"
    /\ Len(md.v.rows) = Len(run.infos)
    /\ \A i \in 1..Len(run.infos) :
          /\ md.v.rows[i].title = run.infos[i].title
          /\ md.v.rows[i].changed = run.infos[i].changed
    /\ md.v.new_sections = run.new_sections
    /\ md.v.removed_sections = run.removed_sections

\* C24: a run that replaces the JSON report also replaces the formatted
\* report with its own rendering; no run, failed or not, writes the one
\* and leaves the other as it was.
C24_OutputsUpdatedTogether ==
    [][(MainStep /\ jsonReport' # jsonReport) => RenderedByThisRun(mdReport', last')]_vars

(***************************************************************************)
(* C25: the figures of the mapping artifact                                *)
(***************************************************************************)

\* C25: in every artifact the secondary command writes,
\* section_coverage_percent lies between 0 and 100 and
\* mapped_section_count plus the number of unmapped sections is
\* total_section_count.
C25_FiguresAreConsistent ==
    MapSucceeded =>
        LET percent == mappingFile.v[K_section_coverage_percent].v
            mapped == mappingFile.v[K_mapped_section_count].v[1]
            total == mappingFile.v[K_total_section_count].v[1]
            unmapped == mappingFile.v[K_unmapped_sections].v
        IN  /\ percent[1] >= 0
            /\ percent[1] <= 100 * percent[2]
            /\ mapped + Len(unmapped) = total

(***************************************************************************)
(* C26: the headings the two commands recognise                            *)
(***************************************************************************)

TitleList(sections) == [i \in 1..Len(sections) |-> sections[i].title]

\* C26: over the same document the secondary command recognises the
\* titles, in order, that the primary command's extract_sections returns,
\* and the other way round.
C26_SameHeadings ==
    /\ MapSucceeded => lastMap.sections = TitleList(extract_sections(specFile.v))
    /\ RunSucceeded => TitleList(last.infos) = SPEC_SECTIONS(specFile.v)

(***************************************************************************)
(* C27: the changed marks of the two reports                               *)
(***************************************************************************)

\* C27: in the reports of one run, a row of the section table is marked
\* changed exactly when the JSON report records changed = true for the
\* title of the row, also when titles repeat.
C27_RowsMarkedAsInJson ==
    RunSucceeded =>
        \A i \in 1..Len(mdReport.v.rows) :
            mdReport.v.rows[i].changed
                <=> jsonReport.v[K_sections].v[mdReport.v.rows[i].title].v[K_changed]
                        = JBool(TRUE)

(***************************************************************************)
(* C28: the mapping summary of a primary report                            *)
(***************************************************************************)

\* C28: whatever edits and runs came before, a primary report with a
\* mapping summary has as total_section_count the number of numbered
\* sections of the document the run read, and lists as unmapped only
\* titles of that document.
C28_SummaryIsOfDocumentRead ==
    MappingReported =>
        LET mapping == jsonReport.v[K_section_mapping].v
        IN  /\ mapping[K_total_section_count]
                  = JNum(Len(IntegerTitles(TitleList(CurrentSections))), 1)
            /\ ListedTitles(mapping[K_unmapped_sections]) \subseteq CurrentTitles

(***************************************************************************)
(* C29: the two reports after two invocations at once                      *)
(***************************************************************************)

\* C29: when two invocations on the same paths have both ended, the
\* formatted report on disk is the one the invocation rendered that wrote
\* the JSON report last, so both list the same new and removed sections.
C29_ReportsOfOneInvocation ==
    (BothDone /\ jsonWriter # 0) =>
        /\ mdReport = InvocationOutcome(jsonWriter).md
        /\ JStrList(mdReport.v.new_sections) = jsonReport.v[K_new_sections]
        /\ JStrList(mdReport.v.removed_sections) = jsonReport.v[K_removed_sections]

(***************************************************************************)
(* C30: a file that two patterns select                                    *)
(***************************************************************************)

\* C30: a scan in which files are read once for every pattern of
\* TEST_GLOBS that selects them yields the mapping, with the same
\* identifiers in the same order, of a scan that reads every file once.
C30_ScanningTwiceIsScanningOnce ==
    MapSucceeded => lastMap.spec_map = ScanAll(EmptyMap, testFiles)

\* A scan of a file under src/tests, which both patterns select, and of a
\* second file bound to a section the first one cites too.
C30_Witness ==
    /\ MapSucceeded
    /\ Len(testFiles) = 2
    /\ testFiles[1][1] = P_src_a
    /\ Len(GlobResults(testFiles)) = 3
    /\ \E sec \in DOMAIN lastMap.spec_map : Len(lastMap.spec_map[sec]) = 2

====
